---- MODULE Spec2Model ----
(***************************************************************************)
(* mico: the message bus (bus.py), the per-agent serialized turn           *)
(* (agent.py), the context compactor (compact.py) and the due-job          *)
(* scheduler (scheduler.py) as one state machine.                          *)
(*                                                                         *)
(* Scheduling is asyncio's: one step of the model runs a coroutine from    *)
(* one suspension point to the next, so code between two awaits that       *)
(* cannot suspend is one atomic action.                                    *)
(*                                                                         *)
(* The store (storage.py) is modelled by what its calls return when they   *)
(* complete: get_agent a record or None, list_messages_with_order the log, *)
(* add_message an append.  storage.py reaches the store through a module   *)
(* __getattr__ that raises when the store was never initialised, and its   *)
(* functions are coroutine functions while agent.py and compact.py call    *)
(* them as plain functions: a turn whose store call fails that way raises  *)
(* inside the locked section before anything is read or written.  That     *)
(* outcome is the StorageError branch of RunLocked, CompactCall and        *)
(* SelectCall.                                                             *)
(***************************************************************************)
EXTENDS Integers, Sequences, FiniteSets, TLC

\* ---------------------------------------------------------------- bounds
\* Number of inbound envelopes published in one behaviour.
MaxEnv == 2
\* Number of outbound messages published directly on the bus, and number of
\* register/unregister calls on the sender registry, in one behaviour.
MaxOut == 3
MaxReg == 4
\* Number of messages added to a log directly, and number of direct calls of
\* the compactor's functions, in one behaviour.
MaxLog == 3
MaxCalls == 2
\* Number of seconds the clock advances in one behaviour.
MaxTick == 1
\* Longest text split and largest chunk limit tried (channels.py:353).
MaxText == 4
MaxLimit == 3

\* ------------------------------------------------------- input domains
AgentIds == {"a1", "a2"}
\* Agent "a2" may have been deleted from the store (storage.py:474-478)
\* while a telegram adapter or a job still names it.
StoredAgents == {AgentIds, {"a1"}}
\* web.py publishes with wait_response=True and a timeout, the telegram
\* adapter publishes fire-and-forget.
Channels == {"web", "telegram"}
\* Python's None for an optional str.
None == "<None>"
\* Inbound content as the callers publish it: stripped and non-empty
\* (web.py:425-427, channels.py:193-215).
Contents == {"hi"}
\* Queue capacities (bus.py:22): the default, which the traffic of the model
\* never fills, and one small enough to fill within MaxEnv envelopes.
DEFAULT_MAXSIZE == 1000
TightMaxsize == MaxEnv - 1
\* max_parallel arguments tried: below the clamp, a pool of one, a pool of two.
MaxParallelInputs == 0 .. 2

\* Envelope ids: MaxEnv envelopes, and one more for the burst that fills a
\* pool of two (BlockSpec).
MaxBurst == MaxEnv + 1
Envelopes == 1 .. MaxBurst
\* Turn 0 is the scheduler's call of Mico.run, turn e > 0 is envelope e's.
SchedTurn == 0
Turns == {SchedTurn} \cup Envelopes

\* What the external executor may return to turn t: blank text, or a padded
\* reply that names the turn.
Reply(t) == "re:" \o ToString(t)
Results(t) == {" ", " " \o Reply(t)}

\* ------------------------------------------------------------- helpers
\* A message too long to write down: LongText stands for a text of
\* LongTextLen characters without leading or trailing blanks.
LongText == "<long text>"
LongTextLen == 240000

\* len(text)
TextLen(text) == IF text = LongText THEN LongTextLen ELSE Len(text)

Max(a, b) == IF a >= b THEN a ELSE b

\* str.strip() on the strings of the model.
Strip(s) ==
    IF s = " "
    THEN ""
    ELSE IF \E t \in Turns : s = " " \o Reply(t)
         THEN Reply(CHOOSE t \in Turns : s = " " \o Reply(t))
         ELSE s

\* Faulty variant: the test without strip().
NonBlankUnstripped(s) == s # None /\ s # ""

\* `x and x.strip()` for an optional str.
NonBlank(s) == s # None /\ s # "" /\ Strip(s) # ""

\* f'Error while processing your message: {exc}'
ErrorText(exc) == "Error while processing your message: " \o exc

InboundMessage(agent_id, channel, content) ==
    [agent_id |-> agent_id,
     channel |-> channel,
     content |-> content,
     sender_id |-> IF channel = "web" THEN "local-ui" ELSE "tg-user",
     chat_id |-> IF channel = "web" THEN "web-ui" ELSE "tg-chat"]

NoMessage == InboundMessage("", "web", "")

\* The OutboundMessage _process_envelope builds; id stands for the fresh
\* message_id and is the envelope it answers.
OutboundMessage(e, message, response) ==
    [agent_id |-> message.agent_id,
     channel |-> message.channel,
     content |-> response,
     chat_id |-> message.chat_id,
     id |-> e]

NoFuture == [state |-> "none", value |-> None]
PendingFuture == [state |-> "pending", value |-> None]

\* Faulty variant: set_result whenever the envelope has a future, done or not.
SetResultUnchecked(f, response) ==
    IF f.state # "none" THEN [state |-> "result", value |-> response] ELSE f

\* `if response_future is not None and not response_future.done():
\*      response_future.set_result(response)`
SetResultIfPending(f, response) ==
    IF f.state = "pending" THEN [state |-> "result", value |-> response] ELSE f

NewLock == [created |-> FALSE, locked |-> FALSE, waiters |-> <<>>]

\* asyncio.Queue as bus.py uses it: full() with a positive maxsize, put
\* appends on the right, get pops from the left.  QueueFullOffByOne and
\* QueueGetNewest are faulty variants: one item too many, and a stack.
QueueFullOffByOne(q, maxsize) == Len(q) > maxsize
QueueFull(q, maxsize) == Len(q) >= maxsize
QueuePut(q, x) == Append(q, x)
QueueGetNewest(q) == [item |-> q[Len(q)], rest |-> SubSeq(q, 1, Len(q) - 1)]
QueueGet(q) == [item |-> Head(q), rest |-> Tail(q)]

VARIABLES
    agents,          \* store: agent_id -> status of its row in table agents, or None
    messages,        \* store: agent_id -> ordered message log
    memories,        \* store: agent_id -> compaction memories upserted
    jobs,            \* store: job id -> scheduled job row
    inbound_maxsize, \* maxsize of MessageBus._inbound
    outbound_maxsize,\* maxsize of MessageBus._outbound
    inbound,         \* MessageBus._inbound
    outbound,        \* MessageBus._outbound
    env,             \* envelope id -> [message, wait, timed]
    next_env,        \* next envelope id to publish
    pub,             \* publish_inbound call of each envelope: none, putting,
                     \* await (on the future), returned (None), timeout
    fut,             \* envelope.response_future
    max_parallel,    \* AgentMessageWorker._max_parallel
    semaphore,       \* AgentMessageWorker._semaphore._value
    active_tasks,    \* AgentMessageWorker._active_tasks
    consumer,        \* _consume_loop: [pc, envelope]
    ready,           \* created tasks that have not run yet, in creation order
    tpc,             \* position of each turn's task
    tresp,           \* response a task holds while blocked in publish_outbound
    locks,           \* Mico._locks: agent_id -> lock
    history_input,   \* _run_locked's history_input while the turn is in it
    sched,           \* SchedulerWorker: [pc, due, job, now, wake], and log, the
                     \* history of what it did
    sender_registry, \* messages._sender_registry: channel -> sender or None
    delivered,       \* history: <<sender, message>> for every sender invoked
    send_errors,     \* history: <<message id, error>> for every failed send
    reg_log,         \* history: the register/unregister calls made
    outloop,         \* OutboundMessageWorker._loop: running or dead
    telegram_enabled,\* ChannelManager._telegram_enabled
    cm_running,      \* ChannelManager._running
    cm_stopping,     \* ChannelManager.stop is awaiting the telegram adapters
    tg_running,      \* TelegramChannelService._running
    agent_channels,  \* the enabled telegram rows of agent_channels: agent_id ->
                     \* bot_token as stored, or None without a row
    tg_adapters,     \* TelegramChannelService._adapters: agent_id -> adapter
    tg_start,        \* the adapters TelegramChannelService.start has yet to start
    cm_start,        \* history: how the last ChannelManager.start went: "none",
                     \* "pending" in the adapters, "returned" or "raised"
    tg_sent,         \* history: the send_message calls made on an adapter's bot
    clock,           \* int(time.time())
    compacted_ids,   \* history: ids of the messages compaction deleted
    created,         \* number of messages added to the store directly
    fn_calls,        \* number of direct calls of the compactor's functions
    fn_call,         \* the last such call: <<name, agent_id, arguments...>>
    fn_before,       \* the agent's log when it was made
    fn_result,       \* how it ended: <<"return", value>> or <<"raise", error>>
    fn_prev,         \* history: what the three were before the last selection
    put_order,       \* history: envelopes in the order their put completed
    got_order,       \* history: envelopes in the order next_inbound returned them
    out_put,         \* history: outbound messages in publish order
    out_got,         \* history: outbound messages in dequeue order
    calls,           \* history: Mico.run calls made for each envelope
    outcome          \* history: how Mico.run ended for each envelope

logVars == <<messages, memories, compacted_ids>>
storeVars == <<agents, logVars, jobs>>
\* Not written by any step of the bus, the turns, the scheduler or the
\* channels: the queue capacities, and the record of the direct calls.
callVars == <<created, fn_calls, fn_call, fn_before, fn_result, fn_prev>>
capVars == <<inbound_maxsize, outbound_maxsize, callVars>>
busVars == <<capVars, inbound, outbound, env, next_env, pub, fut>>
workerVars == <<max_parallel, semaphore, active_tasks, consumer, ready>>
turnVars == <<tpc, tresp, locks, history_input>>
chanVars == <<telegram_enabled, cm_running, cm_stopping, tg_running, agent_channels,
              tg_adapters, tg_start, cm_start>>
outVars == <<sender_registry, delivered, send_errors, tg_sent, reg_log, outloop, chanVars, clock>>
histVars == <<put_order, got_order, out_put, out_got, calls, outcome>>
vars == <<storeVars, busVars, workerVars, turnVars, sched, outVars, histVars>>

\* ------------------------------------------------------- compact.py
\* The RuntimeError of an uninitialised store (storage.py:80).
StorageError ==
    "Storage is not initialized. Call init_storage() before using storage-backed modules."

DEFAULT_THRESHOLD_TOKENS == 100000
DEFAULT_TARGET_TOKENS_AFTER == 80000
DEFAULT_KEEP_RECENT_TOKENS == 20000
DEFAULT_TOKEN_BUDGET == 20000

\* The fallback of count_tokens (no tokenizer installed): ceil(len/4), at
\* least 1 for non-empty text.
count_tokens(text) ==
    IF text = "" THEN 0 ELSE Max(1, (TextLen(text) + 3) \div 4)

message_tokens(role, content) == 4 + count_tokens(role) + count_tokens(content)

token_counts_of(rows) ==
    [i \in 1 .. Len(rows) |-> message_tokens(rows[i].role, rows[i].content)]

RECURSIVE SumSeq(_)
SumSeq(s) == IF s = <<>> THEN 0 ELSE Head(s) + SumSeq(Tail(s))

\* The loop of _find_recent_tail_start from 0-based `index` downwards;
\* yields <<tail_start, tail_tokens>>.
RECURSIVE TailScan(_, _, _, _, _)
TailScan(token_counts, keep_recent_tokens, index, tail_tokens, tail_start) ==
    IF index < 0
    THEN <<tail_start, tail_tokens>>
    ELSE LET next_total == tail_tokens + token_counts[index + 1]
         IN IF tail_start < Len(token_counts) /\ next_total > keep_recent_tokens
            THEN <<tail_start, tail_tokens>>
            ELSE TailScan(token_counts, keep_recent_tokens, index - 1, next_total, index)

\* Faulty variant: the newest message is held to keep_recent_tokens like
\* the others.
RECURSIVE TailScanUnforced(_, _, _, _, _)
TailScanUnforced(token_counts, keep_recent_tokens, index, tail_tokens, tail_start) ==
    IF index < 0
    THEN <<tail_start, tail_tokens>>
    ELSE LET next_total == tail_tokens + token_counts[index + 1]
         IN IF next_total > keep_recent_tokens
            THEN <<tail_start, tail_tokens>>
            ELSE TailScanUnforced(token_counts, keep_recent_tokens, index - 1, next_total,
                                  index)

_find_recent_tail_start_unforced(token_counts, keep_recent_tokens) ==
    IF token_counts = <<>>
    THEN <<0, 0>>
    ELSE TailScanUnforced(token_counts, keep_recent_tokens, Len(token_counts) - 1, 0,
                          Len(token_counts))

_find_recent_tail_start(token_counts, keep_recent_tokens) ==
    IF token_counts = <<>>
    THEN <<0, 0>>
    ELSE TailScan(token_counts, keep_recent_tokens, Len(token_counts) - 1, 0,
                  Len(token_counts))

\* Faulty variant: the removal does not stop at the protected tail.
RemovalContinuesIntoTail(remove_end, tail_start, compacted_tokens, tokens_to_remove) ==
    compacted_tokens < tokens_to_remove

\* Faulty variant: the removal goes on when the target is met exactly.
RemovalContinuesAtTarget(remove_end, tail_start, compacted_tokens, tokens_to_remove) ==
    remove_end < tail_start /\ compacted_tokens <= tokens_to_remove

\* `while remove_end < tail_start and compacted_tokens < tokens_to_remove`;
\* yields <<remove_end, compacted_tokens>>.
RemovalContinues(remove_end, tail_start, compacted_tokens, tokens_to_remove) ==
    remove_end < tail_start /\ compacted_tokens < tokens_to_remove

RECURSIVE RemoveScan(_, _, _, _, _)
RemoveScan(token_counts, tail_start, tokens_to_remove, remove_end, compacted_tokens) ==
    IF RemovalContinues(remove_end, tail_start, compacted_tokens, tokens_to_remove)
    THEN RemoveScan(token_counts, tail_start, tokens_to_remove, remove_end + 1,
                    compacted_tokens + token_counts[remove_end + 1])
    ELSE <<remove_end, compacted_tokens>>

\* Faulty variant: a log below the threshold is compacted as well.
BelowThresholdIgnored(total_before, threshold_tokens) == FALSE

\* `if total_before < threshold_tokens:` return, nothing compacted.
BelowThreshold(total_before, threshold_tokens) == total_before < threshold_tokens

\* compact_conversation_if_needed on the ordered log `rows`: what it removes,
\* keeps and reports.
CompactionPlan(rows, threshold_tokens, target_tokens_after, keep_recent_tokens) ==
    LET token_counts == token_counts_of(rows)
        total_before == SumSeq(token_counts)
        tail == _find_recent_tail_start(token_counts, keep_recent_tokens)
        tokens_to_remove == Max(0, total_before - target_tokens_after)
        scan == RemoveScan(token_counts, tail[1], tokens_to_remove, 0, 0)
        remove_end == IF rows = <<>> \/ BelowThreshold(total_before, threshold_tokens)
                      THEN 0
                      ELSE scan[1]
        compacted_tokens == IF remove_end = 0 THEN 0 ELSE scan[2]
    IN [tail_tokens |-> tail[2],
        tail_start |-> tail[1],
        remove_end |-> remove_end,
        compacted_tokens |-> compacted_tokens,
        triggered |-> remove_end > 0,
        below_threshold |-> BelowThreshold(total_before, threshold_tokens),
        total_tokens_before |-> total_before,
        total_tokens_after |-> total_before - compacted_tokens,
        compacted_rows |-> SubSeq(rows, 1, remove_end),
        kept_rows |-> SubSeq(rows, remove_end + 1, Len(rows))]

\* The first characters of a message id (`first.id[:8]`): ids are
\* <<first characters, rest>>, and two ids may share the first component.
IdPrefix(id) == id[1]

RowIds(rows) == [i \in 1 .. Len(rows) |-> rows[i].id]

\* The Memory record a triggered compaction upserts
\* (_build_compaction_memory_payload): its name is made of the time and of
\* the first removed message's id prefix, its payload lists the removed
\* messages.
CompactionMemory(plan, created_at) ==
    [compacted_tokens |-> plan.compacted_tokens,
     name |-> <<created_at, IdPrefix(plan.compacted_rows[1].id)>>,
     ids |-> RowIds(plan.compacted_rows)]

\* storage.upsert_memory: INSERT ... ON CONFLICT(agent_id, name) DO UPDATE.
upsert_memory(mems, memory) ==
    IF \E i \in DOMAIN mems : mems[i].name = memory.name
    THEN [i \in DOMAIN mems |-> IF mems[i].name = memory.name THEN memory ELSE mems[i]]
    ELSE Append(mems, memory)

InSeq(x, seq) == \E i \in DOMAIN seq : seq[i] = x

\* Faulty variant: the row added after the newest id given is deleted as
\* well.
delete_messages_through(rows, message_ids) ==
    IF message_ids = <<>>
    THEN rows
    ELSE LET Later(row) == row.id[2] > message_ids[Len(message_ids)][2] + 1
         IN SelectSeq(rows, Later)

\* Faulty variant: the rows archived stay in the log.
delete_messages_kept(rows, message_ids) == rows

\* storage.delete_messages: DELETE FROM messages WHERE agent_id = ? AND
\* id = ?, for each id given.
delete_messages(rows, message_ids) ==
    LET Stays(row) == ~InSeq(row.id, message_ids)
    IN SelectSeq(rows, Stays)

\* What compact_conversation_if_needed returns (compact.py:160-233).
CompactionResult(rows, plan, created_at) ==
    IF rows = <<>>
    THEN [compacted_tokens |-> 0, triggered |-> FALSE, total_tokens_before |-> 0,
          total_tokens_after |-> 0, compacted_messages |-> 0,
          kept_recent_messages |-> 0, kept_recent_tokens |-> 0, memory_name |-> None]
    ELSE IF plan.below_threshold
         THEN [compacted_tokens |-> 0, triggered |-> FALSE,
               total_tokens_before |-> plan.total_tokens_before,
               total_tokens_after |-> plan.total_tokens_before,
               compacted_messages |-> 0,
               kept_recent_messages |-> Len(rows) - plan.tail_start,
               kept_recent_tokens |-> plan.tail_tokens, memory_name |-> None]
         ELSE [compacted_tokens |-> plan.compacted_tokens,
               triggered |-> plan.triggered,
               total_tokens_before |-> plan.total_tokens_before,
               total_tokens_after |-> plan.total_tokens_after,
               compacted_messages |-> Len(plan.compacted_rows),
               kept_recent_messages |-> Len(plan.kept_rows),
               kept_recent_tokens |->
                   SumSeq(SubSeq(token_counts_of(rows), plan.remove_end + 1, Len(rows))),
               memory_name |-> IF plan.triggered
                               THEN CompactionMemory(plan, created_at).name
                               ELSE None]

\* The store after compact_conversation_if_needed ran to its end on
\* agent_id's log with the outcome `plan`: the memory upserted, then the
\* removed messages deleted.
CompactionEffect(agent_id, plan, created_at) ==
    /\ memories' = IF plan.triggered
                   THEN [memories EXCEPT
                           ![agent_id] = upsert_memory(@, CompactionMemory(plan, created_at))]
                   ELSE memories
    /\ messages' = [messages EXCEPT
                      ![agent_id] = delete_messages(@, RowIds(plan.compacted_rows))]
    /\ compacted_ids' = compacted_ids \cup
                           {plan.compacted_rows[i].id : i \in DOMAIN plan.compacted_rows}

\* select_recent_messages_for_context: newest to oldest, stop before the
\* message that would exceed the budget, the first one always taken.
\* Faulty variant: the budget also stops the walk at the newest message.
SelectStopsAtFirst(selected, total, tokens, token_budget) ==
    total + tokens > token_budget

\* Faulty variant: a message that brings the total to the budget stops the
\* walk.
SelectStopsAtBudget(selected, total, tokens, token_budget) ==
    selected # <<>> /\ total + tokens >= token_budget

\* `if selected and total + tokens > token_budget: break`
SelectStops(selected, total, tokens, token_budget) ==
    selected # <<>> /\ total + tokens > token_budget

RECURSIVE SelectScan(_, _, _, _, _)
SelectScan(rows, token_budget, index, total, selected) ==
    IF index < 1
    THEN selected
    ELSE LET tokens == message_tokens(rows[index].role, rows[index].content)
         IN IF SelectStops(selected, total, tokens, token_budget)
            THEN selected
            ELSE SelectScan(rows, token_budget, index - 1, total + tokens,
                            <<rows[index]>> \o selected)

select_recent_messages_for_context(rows, token_budget) ==
    SelectScan(rows, token_budget, Len(rows), 0, <<>>)

\* The messages added to a log directly: a short user message, a longer
\* assistant message, a long user message (costs 6, 12 and 20).
RowKinds ==
    {<<"user", "hi">>,
     <<"assistant", "a reply of 20 chars.">>,
     <<"user", "a question that takes sixty characters to write down, or so.">>}

\* The first characters a fresh uuid4 may start with.
IdPrefixes == {"0a", "7f"}

\* Arguments of the direct calls: the defaults, and values of the size of
\* the model's logs, some of them invalid (zero, target above threshold).
CompactArgs ==
    {<<DEFAULT_THRESHOLD_TOKENS, DEFAULT_TARGET_TOKENS_AFTER, DEFAULT_KEEP_RECENT_TOKENS>>,
     <<20, 12, 6>>, <<20, 10, 12>>, <<30, 30, 12>>, <<30, 15, 40>>,
     <<20, 10, 0>>, <<20, 30, 12>>}
TokenBudgets == {5, 18, DEFAULT_TOKEN_BUDGET}

\* A call of one of compact.py's functions is recorded with the log it saw.
Called(call, agent_id, result) ==
    /\ fn_calls < MaxCalls
    /\ fn_calls' = fn_calls + 1
    /\ fn_call' = call
    /\ fn_before' = messages[agent_id]
    /\ fn_result' = result

\* storage.add_message called directly: a row with a fresh id at the end of
\* the agent's log.
AddMessage(agent_id, kind, prefix) ==
    /\ created < MaxLog
    /\ created' = created + 1
    /\ messages' = [messages EXCEPT
                      ![agent_id] = Append(@, [content |-> kind[2],
                                               id |-> <<prefix, created + 1>>,
                                               role |-> kind[1],
                                               turn |-> 0])]
    /\ UNCHANGED <<agents, memories, compacted_ids, jobs, inbound_maxsize,
                   outbound_maxsize, fn_calls, fn_call, fn_before, fn_result, fn_prev,
                   inbound,
                   outbound, env, next_env, pub, fut, workerVars, turnVars, sched,
                   outVars, histVars>>

\* compact.select_recent_messages_for_context(agent_id, token_budget) called
\* and run to its end: it returns the selection, or the store call raises.
SelectCall(agent_id, token_budget) ==
    /\ \/ Called(<<"select", agent_id, token_budget>>, agent_id,
                 <<"return",
                   select_recent_messages_for_context(messages[agent_id], token_budget)>>)
       \/ Called(<<"select", agent_id, token_budget>>, agent_id, <<"raise", StorageError>>)
    /\ fn_prev' = <<fn_call, fn_before, fn_result>>
    /\ UNCHANGED <<storeVars, inbound_maxsize, outbound_maxsize, created, inbound,
                   outbound, env, next_env, pub, fut, workerVars, turnVars, sched,
                   outVars, histVars>>

ThresholdsError == "Token thresholds must be positive."
TargetError == "target_tokens_after must be <= threshold_tokens."

\* compact.compact_conversation_if_needed(agent_id, threshold_tokens,
\* target_tokens_after, keep_recent_tokens) called and run to its end: the
\* arguments are rejected; or the store call that lists the log raises; or
\* compaction runs; or the memory is upserted and the delete raises.
CompactCall(agent_id, args) ==
    /\ LET call == <<"compact", agent_id, args[1], args[2], args[3]>>
           rows == messages[agent_id]
           plan == CompactionPlan(rows, args[1], args[2], args[3])
       IN IF args[1] <= 0 \/ args[2] <= 0 \/ args[3] <= 0
          THEN /\ Called(call, agent_id, <<"raise", ThresholdsError>>)
               /\ UNCHANGED logVars
          ELSE IF args[2] > args[1]
               THEN /\ Called(call, agent_id, <<"raise", TargetError>>)
                    /\ UNCHANGED logVars
               ELSE \/ /\ Called(call, agent_id, <<"raise", StorageError>>)
                       /\ UNCHANGED logVars
                    \/ /\ Called(call, agent_id,
                                 <<"return", CompactionResult(rows, plan, clock)>>)
                       /\ CompactionEffect(agent_id, plan, clock)
                    \/ /\ plan.triggered
                       /\ Called(call, agent_id, <<"raise", StorageError>>)
                       /\ memories' = [memories EXCEPT
                                         ![agent_id] =
                                           upsert_memory(@, CompactionMemory(plan, clock))]
                       /\ UNCHANGED <<messages, compacted_ids>>
    /\ UNCHANGED <<agents, jobs, inbound_maxsize, outbound_maxsize, created, fn_prev,
                   inbound, outbound, env, next_env, pub, fut, workerVars, turnVars,
                   sched, outVars, histVars>>

\* A second passes.
Tick ==
    /\ clock < MaxTick
    /\ clock' = clock + 1
    /\ UNCHANGED <<storeVars, busVars, workerVars, turnVars, sched, sender_registry,
                   delivered, send_errors, tg_sent, reg_log, outloop, chanVars, histVars>>

\* ---------------------------------------------------------- agent.py
\* A Message record of the log; id stands for the fresh uuid.
MessageRecord(t, role, content) ==
    [content |-> content, id |-> <<t, role>>, role |-> role, turn |-> t]

\* _save(role, text): append when text is non-blank, stripped.
_save(rows, t, role, text) ==
    IF NonBlank(text) THEN Append(rows, MessageRecord(t, role, Strip(text))) ELSE rows

\* Faulty variant: the reply is saved before the inputs.
PersistTurnReplyFirst(rows, t, system_input, user_input, content) ==
    _save(_save(_save(rows, t, "assistant", IF Strip(content) # "" THEN content ELSE None),
                t, "system", system_input),
          t, "user", user_input)

\* L214-216: system, then user, then assistant.
PersistTurn(rows, t, system_input, user_input, content) ==
    _save(_save(_save(rows, t, "system", system_input), t, "user", user_input),
          t, "assistant", IF Strip(content) # "" THEN content ELSE None)

\* The arguments of turn t's Mico.run call: bus.py:126-133 for an envelope,
\* scheduler.py:75-79 for the scheduler.
TurnArgs(t) ==
    IF t = SchedTurn
    THEN [agent_id |-> sched.job.agent_id,
          user_input |-> None,
          system_input |-> sched.job.instruction]
    ELSE [agent_id |-> env[t].message.agent_id,
          user_input |-> env[t].message.content,
          system_input |-> None]

\* Messages of the exceptions raised in Mico.run: the blank-input
\* ValueError (agent.py:106) and whatever the executor raises.
NoInputError == "run requires at least one non-empty input (user_input or system_input)."
ExecutorError == "executor failed"

Raised(exc) == [text |-> exc, kind |-> "raise"]
Value(text) == [text |-> text, kind |-> "value"]
NoOutcome == [text |-> None, kind |-> "none"]

AgentOf(t) == TurnArgs(t).agent_id

\* Faulty variant: a new Lock on every call instead of the one kept in _locks.
_lock_for_agent_fresh(ls, agent_id) ==
    [ls EXCEPT ![agent_id] = [created |-> TRUE, locked |-> FALSE, waiters |-> <<>>]]

\* Mico._lock_for_agent: the lock map after the lookup, the lock created on
\* first use and kept.
_lock_for_agent(ls, agent_id) ==
    IF ls[agent_id].created
    THEN ls
    ELSE [ls EXCEPT ![agent_id] = [created |-> TRUE, locked |-> FALSE, waiters |-> <<>>]]

\* Faulty variant: a free lock is taken even when turns queue for it.
CanAcquireBarging(lock) == ~lock.locked

\* `async with lock` taking the lock without suspending: it is free and
\* nobody queues for it.
CanAcquire(lock) == ~lock.locked /\ lock.waiters = <<>>

Acquired(ls, agent_id) == [ls EXCEPT ![agent_id].locked = TRUE]

\* Faulty variant: the lock stays locked.
ReleasedNever(ls, agent_id) == ls

\* Leaving `async with lock`: unlocked, the first waiter (if any) is woken
\* and takes the lock when it runs next.
Released(ls, agent_id) == [ls EXCEPT ![agent_id].locked = FALSE]

\* Faulty variant: the exception's own text, without the prefix.
ResponseBare(oc) == oc.text

\* The response of _process_envelope for the way Mico.run ended
\* (bus.py:125-136).
Response(oc) == IF oc.kind = "raise" THEN ErrorText(oc.text) ELSE oc.text

\* Faulty variant: the test without strip().
ShouldPublishUnstripped(response) == response # ""

\* `if response.strip():` (bus.py:138)
ShouldPublish(response) == Strip(response) # ""

\* Faulty variant: one future kept on the bus, that of the latest envelope.
ResponseFutureShared(e) == next_env - 1

\* envelope.response_future (bus.py:147): the slot the task of envelope e
\* resolves is the one its own envelope carries.
ResponseFuture(e) == e

\* Faulty variant: the response slot is resolved before the put.
BlockedInPutResolved(future, response) == SetResultIfPending(future, response)

\* The response future while the task is suspended in
\* `await self._bus.publish_outbound(outbound)` (bus.py:145): set_result
\* (147-148) comes after the put.
BlockedInPut(future, response) == future

\* _process_envelope after Mico.run ended with outcome oc (L134-148), up to
\* the put on the outbound queue, which suspends when the queue is full.
ProcessEnvelopeTail(e, oc) ==
    LET response == Response(oc)
        m == OutboundMessage(e, env[e].message, response)
        f == ResponseFuture(e)
    IN /\ outcome' = [outcome EXCEPT ![e] = oc]
       /\ sched' = sched
       /\ IF ShouldPublish(response)
          THEN IF ~QueueFull(outbound, outbound_maxsize)
               THEN /\ outbound' = QueuePut(outbound, m)
                    /\ out_put' = Append(out_put, m)
                    /\ fut' = [fut EXCEPT ![f] = SetResultIfPending(@, response)]
                    /\ tpc' = [tpc EXCEPT ![e] = "finished"]
                    /\ tresp' = tresp
               ELSE /\ tpc' = [tpc EXCEPT ![e] = "publishing"]
                    /\ tresp' = [tresp EXCEPT ![e] = response]
                    /\ fut' = [fut EXCEPT ![f] = BlockedInPut(@, response)]
                    /\ UNCHANGED <<outbound, out_put>>
          ELSE /\ fut' = [fut EXCEPT ![f] = SetResultIfPending(@, response)]
               /\ tpc' = [tpc EXCEPT ![e] = "finished"]
               /\ UNCHANGED <<outbound, out_put, tresp>>

\* _execute_job after Mico.run ended (scheduler.py:74-81): an exception is
\* logged and swallowed, the job is updated next.
ExecuteJobTail(oc) ==
    /\ sched' = [(IF oc.kind = "raise"
                  THEN [sched EXCEPT !.log = Append(@, <<"run_failed", sched.job.id, clock>>)]
                  ELSE sched)
                 EXCEPT !.pc = "update"]
    /\ tpc' = [tpc EXCEPT ![SchedTurn] = "idle"]
    /\ UNCHANGED <<tresp, outbound, out_put, fut, outcome>>

\* Mico.run of turn t ended with oc: control is back in its caller.
Returned(t, oc) ==
    IF t = SchedTurn THEN ExecuteJobTail(oc) ELSE ProcessEnvelopeTail(t, oc)

\* Turn t stays inside Mico.run at position pc.
Suspended(t, pc) ==
    /\ tpc' = [tpc EXCEPT ![t] = pc]
    /\ sched' = IF t = SchedTurn THEN [sched EXCEPT !.pc = "run"] ELSE sched
    /\ UNCHANGED <<tresp, outbound, out_put, fut, outcome>>

\* Faulty variant: the row returned by get_agent is not tested.
AgentFoundUntested(agent_id) == TRUE

\* `agent_row is None` is false (agent.py:136-138): the store has a row
\* with that id.
AgentFound(agent_id) == agents[agent_id] # None

NotFoundError(agent_id) == "Agent '" \o agent_id \o "' not found."

\* Mico._build_history_input (agent.py:50-66): the rows selected with the
\* default budget that have a known role and a non-blank content.
_build_history_input(rows) ==
    SelectSeq(select_recent_messages_for_context(rows, DEFAULT_TOKEN_BUDGET),
              LAMBDA row : /\ row.role \in {"user", "assistant", "system", "tool"}
                           /\ NonBlank(row.content))

\* Faulty variant: the history is the log as it was read before compaction.
HistoryRowsUncompacted(before, after) == before

\* The rows of the history (agent.py:145), built from the log as
\* compaction (agent.py:141) left it.
HistoryRows(before, after) == _build_history_input(after)

\* history_input with the inputs of the turn appended (agent.py:152-155).
HistoryInput(t, rows) ==
    _save(_save(rows, t, "system", TurnArgs(t).system_input),
          t, "user", TurnArgs(t).user_input)

\* Mico._run_locked from its start to the executor call (agent.py:136-179),
\* entered with the lock map ls in which t holds agent_id's lock.
RunLocked(t, agent_id, ls) ==
    \/ \* get_agent returned None
       /\ ~AgentFound(agent_id)
       /\ locks' = Released(ls, agent_id)
       /\ UNCHANGED <<logVars, history_input>>
       /\ Returned(t, Raised(NotFoundError(agent_id)))
    \/ \* a store call raised (storage.py:78-81, 108-109)
       /\ locks' = Released(ls, agent_id)
       /\ UNCHANGED <<logVars, history_input>>
       /\ Returned(t, Raised(StorageError))
    \/ \* compaction if needed, context selection, then the executor is awaited
       /\ AgentFound(agent_id)
       /\ LET plan == CompactionPlan(messages[agent_id], DEFAULT_THRESHOLD_TOKENS,
                                     DEFAULT_TARGET_TOKENS_AFTER,
                                     DEFAULT_KEEP_RECENT_TOKENS)
          IN CompactionEffect(agent_id, plan, clock)
       /\ history_input' = [history_input EXCEPT
                               ![t] = HistoryInput(t, HistoryRows(messages[agent_id],
                                                                  messages'[agent_id]))]
       /\ locks' = ls
       /\ Suspended(t, "exec")

\* Mico.run (agent.py:101-120) from the call to its first suspension.
MicoRun(t) ==
    LET args == TurnArgs(t)
        ls == _lock_for_agent(locks, args.agent_id)
    IN IF ~NonBlank(args.user_input) /\ ~NonBlank(args.system_input)
       THEN /\ UNCHANGED <<locks, logVars, history_input>>
            /\ Returned(t, Raised(NoInputError))
       ELSE IF CanAcquire(ls[args.agent_id])
            THEN RunLocked(t, args.agent_id, Acquired(ls, args.agent_id))
            ELSE /\ locks' = [ls EXCEPT ![args.agent_id].waiters = Append(@, t)]
                 /\ UNCHANGED <<logVars, history_input>>
                 /\ Suspended(t, "lockwait")

\* A turn queued on the lock is woken by the release and takes the lock.
LockGranted(t) ==
    /\ tpc[t] = "lockwait"
    /\ LET a == TurnArgs(t).agent_id
       IN /\ ~locks[a].locked
          /\ locks[a].waiters # <<>>
          /\ Head(locks[a].waiters) = t
          /\ RunLocked(t, a, [locks EXCEPT ![a].locked = TRUE, ![a].waiters = Tail(@)])
    /\ UNCHANGED <<capVars, agents, jobs, inbound, env, next_env, pub, workerVars, outVars,
                   put_order, got_order, out_got, calls>>

\* The executor call of turn t ends (agent.py:179-227): it raises, or it
\* returns content, which is persisted with the turn's inputs; either way
\* the lock is released and Mico.run ends.
ExecutorDone(t) ==
    /\ tpc[t] = "exec"
    /\ history_input' = [history_input EXCEPT ![t] = <<>>]
    /\ LET args == TurnArgs(t)
           a == args.agent_id
       IN \/ /\ locks' = Released(locks, a)
             /\ UNCHANGED logVars
             /\ Returned(t, Raised(ExecutorError))
          \/ \E content \in Results(t) :
                /\ messages' = [messages EXCEPT
                                  ![a] = PersistTurn(@, t, args.system_input,
                                                     args.user_input, content)]
                /\ UNCHANGED <<memories, compacted_ids>>
                /\ locks' = Released(locks, a)
                /\ Returned(t, Value(content))
    /\ UNCHANGED <<capVars, agents, jobs, inbound, env, next_env, pub, workerVars, outVars,
                   put_order, got_order, out_got, calls>>

\* ------------------------------------------------------------- bus.py
\* Queue.put completing for envelope e: the envelope is queued and
\* publish_inbound returns None or goes on to await the response future.
PutInbound(e, wait_response) ==
    /\ inbound' = QueuePut(inbound, e)
    /\ put_order' = Append(put_order, e)
    /\ pub' = [pub EXCEPT ![e] = IF wait_response THEN "await" ELSE "returned"]

\* MessageBus.publish_inbound up to its first suspension (bus.py:33-43):
\* the put completes at once unless the queue is full.
PublishInboundUpTo(limit, message, wait_response, timed) ==
    /\ next_env <= limit
    /\ LET e == next_env
       IN /\ env' = [env EXCEPT ![e] = [message |-> message,
                                        wait_response |-> wait_response,
                                        timed |-> timed]]
          /\ fut' = [fut EXCEPT ![e] = IF wait_response THEN PendingFuture ELSE NoFuture]
          /\ next_env' = next_env + 1
          /\ IF ~QueueFull(inbound, inbound_maxsize)
             THEN PutInbound(e, wait_response)
             ELSE /\ pub' = [pub EXCEPT ![e] = "putting"]
                  /\ UNCHANGED <<inbound, put_order>>
    /\ UNCHANGED <<capVars, storeVars, outbound, workerVars, turnVars, sched, outVars,
                   got_order, out_put, out_got, calls, outcome>>

PublishInbound(message, wait_response, timed) ==
    PublishInboundUpTo(MaxEnv, message, wait_response, timed)

\* A publisher blocked in Queue.put goes on once the queue has room.
PublishInboundUnblocked(e) ==
    /\ pub[e] = "putting"
    /\ ~QueueFull(inbound, inbound_maxsize)
    /\ PutInbound(e, env[e].wait_response)
    /\ UNCHANGED <<capVars, storeVars, outbound, env, next_env, fut, workerVars, turnVars,
                   sched, outVars, got_order, out_put, out_got, calls, outcome>>

\* publish_inbound has returned to the caller of envelope e, or returns
\* when the caller runs next: without wait_response after the put
\* (bus.py:45-46), else once the future holds a result (bus.py:47-49).
HasReturned(e) == pub[e] = "returned" \/ (pub[e] = "await" /\ fut[e].state = "result")

\* What it returns: None, or the result of the future.
ReturnValue(e) == IF env[e].wait_response THEN fut[e].value ELSE None

\* asyncio.wait_for times out (bus.py:49): it cancels the future it waits
\* for and raises TimeoutError in the caller; the worker is not told.
ResponseTimeout(e) ==
    /\ pub[e] = "await"
    /\ env[e].timed
    /\ fut[e].state = "pending"
    /\ fut' = [fut EXCEPT ![e] = [state |-> "cancelled", value |-> None]]
    /\ pub' = [pub EXCEPT ![e] = "timeout"]
    /\ UNCHANGED <<capVars, storeVars, inbound, outbound, env, next_env, workerVars,
                   turnVars, sched, outVars, histVars>>

\* AgentMessageWorker.__init__: max(1, int(max_parallel)).
ClampParallel(n) == Max(1, n)

\* Faulty variant: a permit is granted at zero.
PermitFreeAtZero(value) == value >= 0

\* Semaphore.acquire returns without waiting.
PermitFree(value) == value > 0

\* Faulty variant: the permit is not given back.
ReleasePermitLost(value) == value

\* Faulty variant: the permit is given back by the task and by the callback.
ReleasePermitTwice(value) == value + 2

\* Semaphore.release (bus.py:115).
ReleasePermit(value) == value + 1

\* bus.py:106-111: the permit is taken, the task created and tracked.
SpawnTask(e) ==
    /\ semaphore' = semaphore - 1
    /\ active_tasks' = active_tasks \cup {e}
    /\ ready' = Append(ready, e)
    /\ tpc' = [tpc EXCEPT ![e] = "ready"]

\* One round of _consume_loop (bus.py:103-111): next_inbound returns the
\* head of the queue; with a free permit the task is spawned in the same
\* step, otherwise the loop waits in acquire holding the envelope.
ConsumeLoop ==
    /\ consumer.pc = "get"
    /\ inbound # <<>>
    /\ LET got == QueueGet(inbound)
           e == got.item
       IN /\ inbound' = got.rest
          /\ got_order' = Append(got_order, e)
          /\ IF PermitFree(semaphore)
             THEN /\ SpawnTask(e)
                  /\ consumer' = consumer
             ELSE /\ consumer' = [pc |-> "acquire", envelope |-> e, join |-> <<>>]
                  /\ UNCHANGED <<semaphore, active_tasks, ready, tpc>>
    /\ UNCHANGED <<capVars, storeVars, outbound, env, next_env, pub, fut, max_parallel,
                   tresp, locks, history_input, sched, outVars, put_order, out_put,
                   out_got, calls,
                   outcome>>

\* The consumer loop waiting in acquire gets a permit and spawns.
PermitAcquired ==
    /\ consumer.pc = "acquire"
    /\ PermitFree(semaphore)
    /\ SpawnTask(consumer.envelope)
    /\ consumer' = [pc |-> "get", envelope |-> 0, join |-> <<>>]
    /\ UNCHANGED <<storeVars, busVars, max_parallel, tresp, locks, history_input, sched,
                   outVars,
                   histVars>>

\* The event loop runs the oldest created task: _process_envelope calls
\* Mico.run (bus.py:123-133).  A task that suspends is no longer ahead of a
\* stop() under way.
StartTask(e) ==
    /\ ready # <<>>
    /\ Head(ready) = e
    /\ ready' = Tail(ready)
    /\ calls' = [calls EXCEPT ![e] = @ + 1]
    /\ MicoRun(e)
    /\ consumer' = IF tpc'[e] \in {"finished", "cancelled"}
                   THEN consumer
                   ELSE [consumer EXCEPT !.join = SelectSeq(@, LAMBDA t : t # e)]
    /\ UNCHANGED <<capVars, agents, jobs, inbound, env, next_env, pub, max_parallel,
                   semaphore, active_tasks, outVars, put_order, got_order,
                   out_got>>

\* A task blocked in publish_outbound goes on once the queue has room
\* (bus.py:145-148).
PublishOutboundUnblocked(e) ==
    /\ tpc[e] = "publishing"
    /\ ~QueueFull(outbound, outbound_maxsize)
    /\ LET m == OutboundMessage(e, env[e].message, tresp[e])
       IN /\ outbound' = QueuePut(outbound, m)
          /\ out_put' = Append(out_put, m)
    /\ fut' = [fut EXCEPT ![ResponseFuture(e)] = SetResultIfPending(@, tresp[e])]
    /\ tpc' = [tpc EXCEPT ![e] = "finished"]
    /\ tresp' = [tresp EXCEPT ![e] = None]
    /\ UNCHANGED <<capVars, storeVars, inbound, env, next_env, pub, workerVars, locks,
                   history_input,
                   sched, outVars, put_order, got_order, out_got, calls, outcome>>

\* The task of envelope e is done: its coroutine returned, or the
\* CancelledError thrown into it came out of it.
TaskEnded(e) == tpc[e] \in {"finished", "cancelled"}

\* AgentMessageWorker._on_task_done (bus.py:113-121), the done callback of
\* every task, run for a cancelled task as well.
OnTaskDone(e) ==
    /\ TaskEnded(e)
    /\ active_tasks' = active_tasks \ {e}
    /\ semaphore' = ReleasePermit(semaphore)
    /\ tpc' = [tpc EXCEPT ![e] = "done"]
    /\ UNCHANGED <<storeVars, busVars, max_parallel, consumer, ready, tresp, locks,
                   history_input,
                   sched, outVars, histVars>>

\* list(self._active_tasks) (bus.py:91): the tasks of the set in the order
\* the set yields them, which is any order.
TaskLists(S) ==
    {tasks \in [1 .. Cardinality(S) -> S] :
        \A i \in DOMAIN tasks, k \in DOMAIN tasks : tasks[i] = tasks[k] => i = k}

\* AgentMessageWorker.stop up to `await self._consumer_task`
\* (bus.py:76-85): the consumer loop, suspended in next_inbound or in
\* acquire, is cancelled and ends; an envelope it held is dropped, and a
\* permit handed to it goes back to the semaphore (asyncio.Semaphore.acquire
\* on CancelledError).  The first step of a task that has not run yet and
\* the done callback of a task that has ended are ahead of stop() in the
\* event loop's queue: join holds these tasks until stop() is resumed.
WorkerStop ==
    /\ consumer.pc \in {"get", "acquire"}
    /\ \E ahead \in TaskLists({e \in active_tasks : TaskEnded(e) \/ tpc[e] = "ready"}) :
          consumer' = [consumer EXCEPT !.pc = "stopped", !.join = ahead]
    /\ UNCHANGED <<storeVars, busVars, max_parallel, semaphore, active_tasks, ready,
                   turnVars, sched, outVars, histVars>>

\* Where a task is when task.cancel() reaches it: a task that is done is
\* left alone.
CancelRequested(pc) ==
    IF pc \in {"ready", "lockwait", "exec", "publishing"} THEN "cancel_" \o pc ELSE pc

\* `await task` (bus.py:94-100) in turn for the tasks of the list: the
\* await of a task that is done returns at once, so what is left is the
\* list from the first task that is not done.
RECURSIVE StillAwaited(_, _)
StillAwaited(tasks, pcs) ==
    IF tasks = <<>> \/ pcs[Head(tasks)] \notin {"finished", "cancelled", "done"}
    THEN tasks
    ELSE StillAwaited(Tail(tasks), pcs)

\* stop() where it is with `tasks` left to await: suspended on the first of
\* them, or returned.
Joining(c, tasks) ==
    [c EXCEPT !.pc = IF tasks = <<>> THEN "returned" ELSE "joining", !.join = tasks]

\* AgentMessageWorker.stop after the consumer ended (bus.py:87-100): with
\* an empty active set it returns; otherwise every task of the active set is
\* cancelled, then awaited.  A task that never ran is dropped from the run
\* queue's order.  The callbacks queued before stop() was called have run.
CancelTasks ==
    /\ consumer.pc = "stopped"
    /\ \A i \in DOMAIN consumer.join : tpc[consumer.join[i]] = "done"
    /\ tpc' = [t \in Turns |->
                 IF t \in active_tasks THEN CancelRequested(tpc[t]) ELSE tpc[t]]
    /\ \E tasks \in TaskLists(active_tasks) :
          consumer' = Joining(consumer, StillAwaited(tasks, tpc'))
    /\ ready' = <<>>
    /\ UNCHANGED <<storeVars, busVars, max_parallel, semaphore, active_tasks, tresp,
                   locks, history_input, sched, outVars, histVars>>

\* stop() is resumed by the end of the task it awaits.  Its wake-up is a
\* done callback of that task added after _on_task_done (bus.py:111), so
\* _on_task_done of that task has run; it goes through the rest of the list
\* up to the next task that is not done and returns at the end of the list.
StopJoin ==
    /\ consumer.pc = "joining"
    /\ tpc[Head(consumer.join)] = "done"
    /\ consumer' = Joining(consumer, StillAwaited(consumer.join, tpc))
    /\ UNCHANGED <<storeVars, busVars, max_parallel, semaphore, active_tasks, ready,
                   turnVars, sched, outVars, histVars>>

Cancelled == [text |-> None, kind |-> "cancelled"]

\* The CancelledError is thrown into the task of envelope e where it is
\* suspended and comes out of _process_envelope, whose `except Exception`
\* (bus.py:134) does not catch it: a turn queued on the lock leaves the
\* queue, a turn in the executor leaves `async with lock` (agent.py:111)
\* without saving, a task in publish_outbound never publishes and never
\* resolves the future.
TaskCancelled(e) ==
    /\ tpc[e] \in {"cancel_ready", "cancel_lockwait", "cancel_exec", "cancel_publishing"}
    /\ LET a == AgentOf(e)
       IN locks' = CASE tpc[e] = "cancel_lockwait" ->
                          [locks EXCEPT ![a].waiters = SelectSeq(@, LAMBDA t : t # e)]
                     [] tpc[e] = "cancel_exec" -> Released(locks, a)
                     [] OTHER -> locks
    /\ outcome' = [outcome EXCEPT ![e] = IF tpc[e] = "cancel_publishing" THEN @ ELSE Cancelled]
    /\ tresp' = [tresp EXCEPT ![e] = None]
    /\ history_input' = [history_input EXCEPT ![e] = <<>>]
    /\ tpc' = [tpc EXCEPT ![e] = "cancelled"]
    /\ UNCHANGED <<storeVars, busVars, workerVars, sched, outVars, put_order, got_order,
                   out_put, out_got, calls>>

\* ------------------------------------------------------- messages.py
\* The senders of the repository: channels.py:348-350 (never fails),
\* TelegramChannelService.send (channels.py:305-312, raises without an
\* adapter or when the transport fails), and the capture_sender of
\* tests/test_bus.py:52-53.
Senders == {"_discard_sender", "telegram_send", "capture_sender"}

NoSenderError(channel) == "No sender registered for channel " \o channel \o "."
MismatchError == "OutboundMessage.channel mismatch"
SenderError == "sender failed"
NotConfiguredError == "Telegram adapter not configured for agent"
AgentMismatchError == "Adapter agent mismatch"
NotRunningError == "Telegram adapter is not running"

\* Faulty variant: an unregistered channel falls back to the web sender.
sender_lookup_fallback(registry, channel) ==
    IF registry[channel] = None THEN registry["web"] ELSE registry[channel]

\* `_sender_registry.get(channel)`
sender_lookup(registry, channel) == registry[channel]

\* Faulty variant: the message's channel is not compared with the channel
\* of the lookup.
send_unchecked(registry, channel, m) ==
    LET sender == sender_lookup(registry, channel)
    IN IF sender = None
       THEN <<"raise", NoSenderError(channel)>>
       ELSE <<"invoke", sender>>

\* messages.send up to the call of the sender: <<"raise", error>> or
\* <<"invoke", sender>>.
send(registry, channel, m) ==
    LET sender == sender_lookup(registry, channel)
    IN IF sender = None
       THEN <<"raise", NoSenderError(channel)>>
       ELSE IF m.channel # channel
            THEN <<"raise", MismatchError>>
            ELSE <<"invoke", sender>>

\* Faulty variant: a delivery failure ends the dispatch loop.
AfterDeliveryFailureDies == "dead"

\* `except Exception as exc: logger.exception(...)` (bus.py:179-180): the
\* loop goes round again.
AfterDeliveryFailure == "running"

\* TelegramChannelAdapter as constructed (channels.py:39-50): not running,
\* without an application.
NewAdapter(agent_id, bot_token) ==
    [agent_id |-> agent_id, bot_token |-> bot_token, running |-> FALSE, app |-> FALSE]

\* What `_adapters.get` returns for an agent without an adapter.
NoAdapter == NewAdapter("", "")

\* TelegramChannelAdapter.send up to its first send_message
\* (channels.py:134-140): <<"raise", error>>, or <<"transport", agent_id>>
\* when the adapter goes on to its bot.
AdapterSend(adapter, m) ==
    IF m.agent_id # adapter.agent_id
    THEN <<"raise", AgentMismatchError>>
    ELSE IF ~adapter.app
         THEN <<"raise", NotRunningError>>
         ELSE <<"transport", adapter.agent_id>>

\* `self._adapters.get(message.agent_id)`
AdapterFor(adapters, agent_id) ==
    IF agent_id \in DOMAIN adapters THEN adapters[agent_id] ELSE NoAdapter

\* TelegramChannelService.send (channels.py:305-312) up to the adapter's
\* first send_message.
ServiceSend(adapters, m) ==
    LET adapter == AdapterFor(adapters, m.agent_id)
    IN IF adapter = NoAdapter
       THEN <<"raise", NotConfiguredError>>
       ELSE AdapterSend(adapter, m)

\* One send_message call on the bot of the adapter of `agent_id`, made for a
\* send under `channel`; parse_mode is "HTML" or None.
BotCall(agent_id, channel, m, parse_mode) ==
    [channel |-> channel, message |-> m, adapter |-> agent_id, parse_mode |-> parse_mode]

\* The telegram sender invoked and run to its end (channels.py:305-312,
\* 134-161): it raises before any send_message, or it sends the content,
\* one chunk at the lengths of the model, as HTML and, when that raises, as
\* plain text, which may raise in turn.
TelegramOutcome(channel, m, after) ==
    LET r == ServiceSend(tg_adapters, m)
        html == BotCall(r[2], channel, m, "HTML")
        plain == BotCall(r[2], channel, m, None)
    IN \/ /\ r[1] = "raise"
          /\ send_errors' = Append(send_errors, <<m.id, r[2]>>)
          /\ outloop' = after
          /\ tg_sent' = tg_sent
       \/ /\ r[1] = "transport"
          /\ tg_sent' = Append(tg_sent, html)
          /\ UNCHANGED <<send_errors, outloop>>
       \/ /\ r[1] = "transport"
          /\ tg_sent' = tg_sent \o <<html, plain>>
          /\ \/ UNCHANGED <<send_errors, outloop>>
             \/ /\ send_errors' = Append(send_errors, <<m.id, SenderError>>)
                /\ outloop' = after

\* send(channel, m) called and run to its end: the sender is invoked or not,
\* and it returns or raises.  `after` is the state of the calling loop after
\* a failure.
SendOutcome(channel, m, after) ==
    LET r == send(sender_registry, channel, m)
    IN \/ /\ r[1] = "raise"
          /\ send_errors' = Append(send_errors, <<m.id, r[2]>>)
          /\ delivered' = delivered
          /\ outloop' = after
          /\ tg_sent' = tg_sent
       \/ /\ r[1] = "invoke"
          /\ r[2] # "telegram_send"
          /\ delivered' = Append(delivered, <<r[2], m>>)
          /\ UNCHANGED <<send_errors, outloop, tg_sent>>
       \/ /\ r[1] = "invoke"
          /\ r[2] = "telegram_send"
          /\ delivered' = Append(delivered, <<r[2], m>>)
          /\ TelegramOutcome(channel, m, after)

\* One round of OutboundMessageWorker._loop (bus.py:175-180) with
\* messages.send (messages.py:61-73): the message goes to the sender
\* registered for its channel, or the error is logged and it is dropped.
OutboundLoop ==
    /\ outloop = "running"
    /\ outbound # <<>>
    /\ LET got == QueueGet(outbound)
           m == got.item
       IN /\ outbound' = got.rest
          /\ out_got' = Append(out_got, m)
          /\ SendOutcome(m.channel, m, AfterDeliveryFailure)
    /\ UNCHANGED <<capVars, storeVars, inbound, env, next_env, pub, fut, workerVars,
                   turnVars, sched, sender_registry, reg_log, chanVars, clock,
                   put_order, got_order, out_put, calls, outcome>>

\* The outbound messages published directly (bus.py:51-52), as a tool or a
\* test does: one content, either channel.
DirectMessageFor(agent_id, channel, id) ==
    OutboundMessage(id, InboundMessage(agent_id, channel, "hi"), "hi")

DirectMessage(channel, id) == DirectMessageFor("a1", channel, id)

\* MessageBus.publish_outbound called directly; the caller waits while the
\* queue is full.
PublishOutbound(channel) ==
    /\ Len(out_put) < MaxOut
    /\ ~QueueFull(outbound, outbound_maxsize)
    /\ LET m == DirectMessage(channel, Len(out_put) + 1)
       IN /\ outbound' = QueuePut(outbound, m)
          /\ out_put' = Append(out_put, m)
    /\ UNCHANGED <<capVars, storeVars, inbound, env, next_env, pub, fut, workerVars,
                   turnVars, sched, outVars, put_order, got_order, out_got, calls,
                   outcome>>

\* send(channel, message) called directly (tests/test_bus.py:101-106); the
\* channel need not be the message's own.
SendDirect(channel, m) ==
    /\ Len(delivered) + Len(send_errors) < MaxOut
    /\ SendOutcome(channel, m, outloop)
    /\ UNCHANGED <<storeVars, busVars, workerVars, turnVars, sched, sender_registry,
                   reg_log, chanVars, clock, put_order, got_order, out_put, out_got,
                   calls, outcome>>

\* The registry after register_sender / unregister_sender
\* (messages.py:49-58).
Registered(registry, channel, sender) == [registry EXCEPT ![channel] = sender]
Unregistered(registry, channel) == [registry EXCEPT ![channel] = None]

RegisterSender(channel, sender) ==
    /\ Len(reg_log) < MaxReg
    /\ sender_registry' = Registered(sender_registry, channel, sender)
    /\ reg_log' = Append(reg_log, <<"register", channel, sender>>)
    /\ UNCHANGED <<storeVars, busVars, workerVars, turnVars, sched, delivered,
                   send_errors, tg_sent, outloop, chanVars, clock, histVars>>

UnregisterSender(channel) ==
    /\ Len(reg_log) < MaxReg
    /\ sender_registry' = Unregistered(sender_registry, channel)
    /\ reg_log' = Append(reg_log, <<"unregister", channel, None>>)
    /\ UNCHANGED <<storeVars, busVars, workerVars, turnVars, sched, delivered,
                   send_errors, tg_sent, outloop, chanVars, clock, histVars>>

\* ------------------------------------------------------- channels.py
\* `str(raw.get('bot_token') or '').strip()` (channels.py:429) for the tokens
\* of the model: a missing or blank token becomes ''.
BlankTokens == {None, "", " "}
BotToken(raw) == IF raw \in BlankTokens THEN "" ELSE raw

\* The rows list_enabled_agent_channels returns, ordered by agent_id
\* (storage.py:527-535): the agents that have one.
AgentOrder == <<"a1", "a2">>

\* The adapters TelegramChannelService.start builds (channels.py:264-276):
\* one for every row with a token, under the row's agent_id.
BuiltAdapters(rows) ==
    [a \in {x \in AgentIds : rows[x] # None /\ BotToken(rows[x]) # ""} |->
        NewAdapter(a, BotToken(rows[a]))]

\* `self._adapters.values()`: the adapters in the order they were added.
AdapterValues(adapters) == SelectSeq(AgentOrder, LAMBDA a : a \in DOMAIN adapters)

\* Faulty variant: a failed start leaves the adapter as the failure found it.
StartFailedUncleaned(adapter) == [adapter EXCEPT !.running = TRUE, !.app = TRUE]

\* `except Exception: self._running = False; await self._cleanup_app(); raise`
\* (channels.py:125-128), and the ImportError branch (120-124), in which no
\* application was built.
StartFailed(adapter) == [adapter EXCEPT !.running = FALSE, !.app = FALSE]

\* TelegramChannelAdapter.start (channels.py:53-128) raises: the token is
\* blank, or the telegram application could not be built and started.
StartRaises(adapter, ok) ==
    ~adapter.running /\ (BotToken(adapter.bot_token) = "" \/ ~ok)

\* The adapter after the call.
AdapterStarted(adapter, ok) ==
    IF adapter.running \/ BotToken(adapter.bot_token) = ""
    THEN adapter
    ELSE IF ok
         THEN [adapter EXCEPT !.running = TRUE, !.app = TRUE]
         ELSE StartFailed(adapter)

\* ChannelManager.start (channels.py:322-330) with
\* TelegramChannelService.start (channels.py:259-283) up to the start of its
\* first adapter: the web sender is registered; with telegram enabled the
\* service lists the agent channels, which raises when the store call
\* fails, builds the adapters and registers its sender.
ChannelManagerStart ==
    /\ ~cm_running
    /\ cm_running' = TRUE
    /\ LET web == Registered(sender_registry, "web", "_discard_sender")
           log == Append(reg_log, <<"register", "web", "_discard_sender">>)
       IN IF telegram_enabled /\ ~tg_running
          THEN /\ tg_running' = TRUE
               /\ \/ /\ sender_registry' = web
                     /\ reg_log' = log
                     /\ cm_start' = "raised"
                     /\ UNCHANGED <<tg_adapters, tg_start>>
                  \/ /\ sender_registry' = Registered(web, "telegram", "telegram_send")
                     /\ reg_log' = Append(log, <<"register", "telegram", "telegram_send">>)
                     /\ tg_adapters' = BuiltAdapters(agent_channels)
                     /\ tg_start' = AdapterValues(tg_adapters')
                     /\ cm_start' = IF tg_start' = <<>> THEN "returned" ELSE "pending"
          ELSE /\ sender_registry' = web
               /\ reg_log' = log
               /\ cm_start' = "returned"
               /\ UNCHANGED <<tg_running, tg_adapters, tg_start>>
    /\ Len(reg_log') <= MaxReg
    /\ UNCHANGED <<storeVars, busVars, workerVars, turnVars, sched, delivered,
                   send_errors, tg_sent, outloop, telegram_enabled, cm_stopping,
                   agent_channels, clock, histVars>>

\* TelegramChannelService.start resumed (channels.py:280-281): the next
\* adapter is started; when its start raises, the exception leaves the
\* service's start and the manager's, and the adapters after it are not
\* started.
AdapterStart ==
    /\ tg_start # <<>>
    /\ \E ok \in BOOLEAN :
          LET adapter == tg_adapters[Head(tg_start)]
          IN /\ tg_adapters' = [tg_adapters EXCEPT ![Head(tg_start)] =
                                                     AdapterStarted(adapter, ok)]
             /\ tg_start' = IF StartRaises(adapter, ok) THEN <<>> ELSE Tail(tg_start)
             /\ cm_start' = IF StartRaises(adapter, ok)
                            THEN "raised"
                            ELSE IF tg_start' = <<>> THEN "returned" ELSE "pending"
    /\ UNCHANGED <<storeVars, busVars, workerVars, turnVars, sched, sender_registry,
                   delivered, send_errors, tg_sent, reg_log, outloop, telegram_enabled,
                   cm_running, cm_stopping, tg_running, agent_channels, clock, histVars>>

\* ChannelManager.stop (channels.py:332-340) up to its suspension in
\* TelegramChannelService.stop (channels.py:285-297), which unregisters the
\* telegram sender, clears its adapters and then awaits them; without
\* telegram the web sender is unregistered in the same step.  A stop waits
\* for a start under way (web.py:54, 78).
ChannelManagerStop ==
    /\ cm_running
    /\ ~cm_stopping
    /\ tg_start = <<>>
    /\ cm_running' = FALSE
    /\ IF telegram_enabled /\ tg_running
       THEN /\ tg_running' = FALSE
            /\ sender_registry' = Unregistered(sender_registry, "telegram")
            /\ reg_log' = Append(reg_log, <<"unregister", "telegram", None>>)
            /\ tg_adapters' = BuiltAdapters([a \in AgentIds |-> None])
            /\ cm_stopping' = TRUE
       ELSE /\ sender_registry' = Unregistered(sender_registry, "web")
            /\ reg_log' = Append(reg_log, <<"unregister", "web", None>>)
            /\ UNCHANGED <<tg_running, cm_stopping, tg_adapters>>
    /\ Len(reg_log') <= MaxReg
    /\ UNCHANGED <<storeVars, busVars, workerVars, turnVars, sched, delivered,
                   send_errors, tg_sent, outloop, telegram_enabled, agent_channels,
                   tg_start, cm_start, clock, histVars>>

\* ChannelManager.stop resumed: the web sender is unregistered
\* (channels.py:340).
ChannelManagerStopDone ==
    /\ cm_stopping
    /\ Len(reg_log) < MaxReg
    /\ cm_stopping' = FALSE
    /\ sender_registry' = Unregistered(sender_registry, "web")
    /\ reg_log' = Append(reg_log, <<"unregister", "web", None>>)
    /\ UNCHANGED <<storeVars, busVars, workerVars, turnVars, sched, delivered,
                   send_errors, tg_sent, outloop, telegram_enabled, cm_running,
                   tg_running, agent_channels, tg_adapters, tg_start, cm_start, clock,
                   histVars>>

\* The characters of the texts that are split: letters, a space, a
\* newline.  A text is the sequence of its characters.
Letters == {"a", "b"}
Whitespace == {" ", "\n"}
Alphabet == Letters \cup Whitespace

\* str.lstrip()
RECURSIVE lstrip(_)
lstrip(text) ==
    IF text # <<>> /\ Head(text) \in Whitespace THEN lstrip(Tail(text)) ELSE text

\* str.rfind(ch): the last index of ch, counted from 0, or -1.
rfind(text, ch) ==
    LET found == {i \in DOMAIN text : text[i] = ch}
    IN IF found = {} THEN -1 ELSE (CHOOSE i \in found : \A k \in found : k <= i) - 1

\* text[i:] and text[:i] for 0 <= i
From(text, i) == SubSeq(text, i + 1, Len(text))
UpTo(text, i) == SubSeq(text, 1, IF i < Len(text) THEN i ELSE Len(text))

\* The `while remaining:` loop of _split_message (channels.py:360-374).
RECURSIVE SplitLoop(_, _, _)
SplitLoop(remaining, max_len, chunks) ==
    IF remaining = <<>>
    THEN chunks
    ELSE IF Len(remaining) <= max_len
         THEN Append(chunks, remaining)
         ELSE LET candidate == UpTo(remaining, max_len)
                  newline == rfind(candidate, "\n")
                  found == IF newline = -1 THEN rfind(candidate, " ") ELSE newline
                  cut == IF found <= 0 THEN max_len ELSE found
              IN SplitLoop(lstrip(From(remaining, cut)), max_len,
                           Append(chunks, UpTo(remaining, cut)))

\* _split_message(content, max_len) (channels.py:353-374), for a content
\* that is a str.
_split_message(content, max_len) ==
    IF Len(content) <= max_len THEN <<content>> ELSE SplitLoop(content, max_len, <<>>)

\* _split_message(text, max_len) called directly and run to its end.
SplitCall ==
    /\ fn_call[1] = "split"
    /\ fn_result = <<"none">>
    /\ fn_calls' = fn_calls + 1
    /\ fn_result' = <<"return", _split_message(fn_call[2], fn_call[3])>>
    /\ UNCHANGED <<storeVars, inbound_maxsize, outbound_maxsize, created, fn_call,
                   fn_before, fn_prev, inbound, outbound, env, next_env, pub, fut,
                   workerVars, turnVars, sched, outVars, histVars>>

\* ------------------------------------------------------- scheduler.py
JobIds == {"j1", "j2"}
\* SQL NULL, Python's None, for a time in seconds.
NoTime == -1
NoJob == [agent_id |-> "", id |-> "", instruction |-> "", job_type |-> "once",
          cron_period |-> 0, next_run_at |-> NoTime, last_run_at |-> NoTime,
          status |-> "deleted"]

\* The poll_interval the SchedulerWorker is constructed with, in seconds.
PollInterval == 1

IntegrityError == "NOT NULL constraint failed: scheduled_jobs.next_run_at"

\* Faulty variant: the fire time at or after now.
NextFireAtOrAfter(cron_period, now) ==
    ((now + cron_period - 1) \div cron_period) * cron_period

\* croniter(cron_expr, now).get_next(): the first fire time after now, for
\* an expression that fires every cron_period seconds.
NextFire(cron_period, now) == ((now \div cron_period) + 1) * cron_period

\* storage.get_due_jobs: active jobs with next_run_at <= now, by next_run_at.
RECURSIVE SortedJobs(_)
SortedJobs(S) ==
    IF S = {}
    THEN <<>>
    ELSE LET j == CHOOSE x \in S : \A y \in S : jobs[x].next_run_at <= jobs[y].next_run_at
         IN <<jobs[j]>> \o SortedJobs(S \ {j})

get_due_jobs(now) ==
    SortedJobs({j \in JobIds : jobs[j].status = "active" /\ jobs[j].next_run_at <= now})

\* storage.get_agent: the row, here its status, or None.
get_agent(agent_id) == agents[agent_id]

\* storage.delete_agent (storage.py:474-478): the row is deleted and with
\* it, by ON DELETE CASCADE, the agent's messages, memories and jobs.  Made
\* while no turn of the agent is under way.
DeleteAgent(a) ==
    /\ agents[a] # None
    /\ \A t \in Turns : tpc[t] \in {"none", "idle", "done"}
    /\ sched.pc \in {"sleep", "job"}
    /\ agents' = [agents EXCEPT ![a] = None]
    /\ messages' = [messages EXCEPT ![a] = <<>>]
    /\ memories' = [memories EXCEPT ![a] = <<>>]
    /\ jobs' = [j \in JobIds |-> IF jobs[j].agent_id = a THEN NoJob ELSE jobs[j]]
    /\ UNCHANGED <<compacted_ids, busVars, workerVars, turnVars, sched, outVars, histVars>>

\* _poll_loop going to sleep (scheduler.py:50) at second `at`.
Asleep(s, at) == [s EXCEPT !.pc = "sleep", !.wake = at + PollInterval]

\* What the scheduler did, in order: <<event, job id, second>>, with the
\* exception as a fourth component of a "failed" event.
Logged(s, event) == [s EXCEPT !.log = Append(@, event)]

\* `except Exception: logger.exception('SchedulerWorker tick failed')`
\* (scheduler.py:46-50): the loop sleeps and goes round again.
AfterTickFailure(s, at) == Asleep(s, at)

\* One round of _poll_loop up to the loop over the due jobs
\* (scheduler.py:43-58), once the sleep is over: the query fails, or finds
\* nothing, or finds jobs.
SchedTick ==
    /\ sched.pc = "sleep"
    /\ clock >= sched.wake
    /\ \/ sched' = AfterTickFailure(Logged(sched, <<"tick_failed", "", clock>>), clock)
       \/ /\ get_due_jobs(clock) = <<>>
          /\ sched' = Asleep(sched, clock)
       \/ /\ get_due_jobs(clock) # <<>>
          /\ sched' = [Logged(sched, <<"tick", "", clock>>) EXCEPT
                          !.pc = "job", !.due = get_due_jobs(clock)]
    /\ UNCHANGED <<storeVars, busVars, workerVars, turnVars, outVars, histVars>>

\* Faulty variant: a failing job ends the tick.
AfterJobFailureEndsTick(due) == <<>>

\* `except Exception: logger.exception(...)` inside the loop over the due
\* jobs (scheduler.py:58-62): the loop goes on with the rest.
AfterJobFailure(due) == due

\* _execute_job raised exc for job.
JobFailed(s, job, exc) ==
    [Logged(s, <<"failed", job.id, clock, exc>>) EXCEPT
        !.job = NoJob, !.pc = "job", !.due = AfterJobFailure(@)]

\* Faulty variant: only a missing row counts.
AgentGoneMissingOnly(agent_row) == agent_row = None

\* `agent_row is None or agent_row.status == 'deleted'` (scheduler.py:69)
AgentGone(agent_row) == agent_row = None \/ agent_row = "deleted"

\* The loop takes the next due job and _execute_job resolves its agent
\* (scheduler.py:58-72): a job whose agent is gone is deleted.
SchedNextJob ==
    /\ sched.pc = "job"
    /\ IF sched.due = <<>>
       THEN /\ sched' = Asleep(sched, clock)
            /\ jobs' = jobs
       ELSE LET job == Head(sched.due)
                s == [sched EXCEPT !.now = clock, !.due = Tail(@)]
            IN \/ \* a store call raised
                  /\ jobs' = jobs
                  /\ sched' = JobFailed(s, job, StorageError)
               \/ /\ AgentGone(get_agent(job.agent_id))
                  /\ jobs' = [jobs EXCEPT ![job.id] = NoJob]
                  /\ sched' = Logged(s, <<"deleted", job.id, clock>>)
               \/ /\ ~AgentGone(get_agent(job.agent_id))
                  /\ jobs' = jobs
                  /\ sched' = [Logged(s, <<"call", job.id, clock>>) EXCEPT
                                  !.job = job, !.pc = "call"]
    /\ UNCHANGED <<agents, logVars, busVars, workerVars, turnVars, outVars,
                   histVars>>

\* _execute_job calls Mico.run with the job's instruction as system input
\* (scheduler.py:74-79).
SchedCall ==
    /\ sched.pc = "call"
    /\ MicoRun(SchedTurn)
    /\ UNCHANGED <<capVars, agents, jobs, inbound, env, next_env, pub, workerVars, outVars,
                   put_order, got_order, out_got, calls>>

\* storage.update_job_after_run (storage.py:796-804) on the table of
\* storage.py:203-218: <<"ok", row>> or <<"raise", error>>.  next_run_at is
\* declared INTEGER NOT NULL.
update_job_after_run(row, next_run_at, status, last_run_at) ==
    IF next_run_at = NoTime
    THEN <<"raise", IntegrityError>>
    ELSE <<"ok", [row EXCEPT !.next_run_at = next_run_at, !.last_run_at = last_run_at,
                             !.status = status]>>

\* _execute_job after Mico.run (scheduler.py:83-93): the job is updated with
\* the `now` of scheduler.py:66.  The UPDATE of a row that is gone changes
\* nothing.
SchedUpdate ==
    /\ sched.pc = "update"
    /\ LET job == sched.job
           result == IF job.job_type = "once"
                     THEN update_job_after_run(jobs[job.id], NoTime, "completed", sched.now)
                     ELSE update_job_after_run(jobs[job.id],
                                               NextFire(job.cron_period, sched.now),
                                               "active", sched.now)
       IN \/ \* the store call raised, as it always does for a one-time job
             /\ jobs' = jobs
             /\ sched' = JobFailed(sched, job,
                                    IF result[1] = "raise" THEN result[2] ELSE StorageError)
          \/ /\ jobs[job.id].status = "deleted"
             /\ jobs' = jobs
             /\ sched' = [Logged(sched, <<"updated", job.id, clock>>) EXCEPT
                             !.job = NoJob, !.pc = "job"]
          \/ /\ jobs[job.id].status # "deleted"
             /\ result[1] = "ok"
             /\ jobs' = [jobs EXCEPT ![job.id] = result[2]]
             /\ sched' = [Logged(sched, <<"updated", job.id, clock>>) EXCEPT
                             !.job = NoJob, !.pc = "job"]
    /\ UNCHANGED <<agents, logVars, busVars, workerVars, turnVars, outVars,
                   histVars>>

\* ------------------------------------------------------ specification
\* The callers of publish_inbound: web.py:430-441 waits for the reply with
\* a timeout, channels.py:247 does not wait.
PublishCalls ==
    {[channel |-> "web", wait_response |-> TRUE, timed |-> TRUE],
     [channel |-> "telegram", wait_response |-> FALSE, timed |-> FALSE]}

\* The channel manager as constructed (channels.py:316-320), nothing
\* registered.
InitChannelsWith(enabled, rows) ==
    /\ sender_registry = [c \in Channels |-> None]
    /\ reg_log = <<>>
    /\ telegram_enabled = enabled
    /\ cm_running = FALSE
    /\ cm_stopping = FALSE
    /\ tg_running = FALSE
    /\ agent_channels = rows
    /\ tg_adapters = BuiltAdapters([a \in AgentIds |-> None])
    /\ tg_start = <<>>
    /\ cm_start = "none"
    /\ tg_sent = <<>>

\* The same with no agent channel stored.
InitChannels(enabled) == InitChannelsWith(enabled, [a \in AgentIds |-> None])

\* The channel manager of web.py:62-69 started without telegram: the web
\* sender is registered.
InitChannelsStarted ==
    /\ sender_registry = [c \in Channels |-> IF c = "web" THEN "_discard_sender" ELSE None]
    /\ reg_log = <<>>
    /\ telegram_enabled = FALSE
    /\ cm_running = TRUE
    /\ cm_stopping = FALSE
    /\ tg_running = FALSE
    /\ agent_channels = [a \in AgentIds |-> None]
    /\ tg_adapters = BuiltAdapters([a \in AgentIds |-> None])
    /\ tg_start = <<>>
    /\ cm_start = "returned"
    /\ tg_sent = <<>>

\* A one-time job as create_scheduled_job stores it (storage.py:763-782).
OnceJob(j, a, at) ==
    [agent_id |-> a, id |-> j, instruction |-> "job", job_type |-> "once",
     cron_period |-> 0, next_run_at |-> at, last_run_at |-> NoTime, status |-> "active"]

\* A recurring job that fires every cron_period seconds.
RecurringJob(j, a, cron_period, at) ==
    [agent_id |-> a, id |-> j, instruction |-> "job", job_type |-> "recurring",
     cron_period |-> cron_period, next_run_at |-> at, last_run_at |-> NoTime,
     status |-> "active"]

\* The workers constructed and started on a bus whose queues hold maxsize
\* items, nothing published yet; the agents `stored` and one due one-time
\* job in the store.
InitWorkersCalling(maxsize, agent_rows, job_rows, call) ==
    /\ agents = agent_rows
    /\ messages = [a \in AgentIds |-> <<>>]
    /\ memories = [a \in AgentIds |-> <<>>]
    /\ compacted_ids = {}
    /\ created = 0
    /\ fn_calls = 0
    /\ fn_call = call
    /\ fn_before = <<>>
    /\ fn_result = <<"none">>
    /\ fn_prev = <<<<"none">>, <<>>, <<"none">>>>
    /\ jobs = job_rows
    /\ inbound_maxsize = maxsize
    /\ outbound_maxsize = maxsize
    /\ inbound = <<>>
    /\ outbound = <<>>
    /\ env = [e \in Envelopes |->
                [message |-> NoMessage, wait_response |-> FALSE, timed |-> FALSE]]
    /\ next_env = 1
    /\ pub = [e \in Envelopes |-> "none"]
    /\ fut = [e \in Envelopes |-> NoFuture]
    /\ max_parallel \in {ClampParallel(n) : n \in MaxParallelInputs}
    /\ semaphore = max_parallel
    /\ active_tasks = {}
    /\ consumer = [pc |-> "get", envelope |-> 0, join |-> <<>>]
    /\ ready = <<>>
    /\ tpc = [t \in Turns |-> IF t = SchedTurn THEN "idle" ELSE "none"]
    /\ tresp = [e \in Envelopes |-> None]
    /\ locks = [a \in AgentIds |-> NewLock]
    /\ history_input = [t \in Turns |-> <<>>]
    /\ sched = [job |-> NoJob, pc |-> "sleep", log |-> <<>>, now |-> 0, wake |-> 0,
                due |-> <<>>]
    /\ delivered = <<>>
    /\ send_errors = <<>>
    /\ outloop = "running"
    /\ clock = 0
    /\ put_order = <<>>
    /\ got_order = <<>>
    /\ out_put = <<>>
    /\ out_got = <<>>
    /\ calls = [e \in Envelopes |-> 0]
    /\ outcome = [e \in Envelopes |-> NoOutcome]

\* The same with no direct call pending.
InitWorkersWith(maxsize, agent_rows, job_rows) ==
    InitWorkersCalling(maxsize, agent_rows, job_rows, <<"none">>)

InitWorkers(maxsize, stored) ==
    InitWorkersWith(maxsize,
                    [a \in AgentIds |-> IF a \in stored THEN "active" ELSE None],
                    [j \in JobIds |-> IF j = "j1" THEN OnceJob(j, "a2", 0) ELSE NoJob])

InitBus(maxsize, stored) == InitWorkers(maxsize, stored) /\ InitChannelsStarted

Init == \E stored \in StoredAgents : InitBus(TightMaxsize, stored)

Next ==
    \/ \E c \in PublishCalls, a \in AgentIds, content \in Contents :
          PublishInbound(InboundMessage(a, c.channel, content), c.wait_response, c.timed)
    \/ \E e \in Envelopes : PublishInboundUnblocked(e)
    \/ \E e \in Envelopes : ResponseTimeout(e)
    \/ ConsumeLoop
    \/ PermitAcquired
    \/ \E e \in Envelopes : StartTask(e)
    \/ \E t \in Turns : LockGranted(t)
    \/ \E t \in Turns : ExecutorDone(t)
    \/ \E e \in Envelopes : PublishOutboundUnblocked(e)
    \/ \E e \in Envelopes : OnTaskDone(e)
    \/ OutboundLoop
    \/ SchedTick
    \/ SchedNextJob
    \/ SchedCall
    \/ SchedUpdate

Spec == Init /\ [][Next]_vars

\* The bus pipeline alone: publishers, the agent worker and its tasks, the
\* outbound worker, as web.py:56-60 constructs them; no SchedulerWorker is
\* started.
BusNext ==
    \/ \E c \in PublishCalls, a \in AgentIds, content \in Contents :
          PublishInbound(InboundMessage(a, c.channel, content), c.wait_response, c.timed)
    \/ \E e \in Envelopes : PublishInboundUnblocked(e)
    \/ \E e \in Envelopes : ResponseTimeout(e)
    \/ ConsumeLoop
    \/ PermitAcquired
    \/ \E e \in Envelopes : StartTask(e)
    \/ \E e \in Envelopes : LockGranted(e)
    \/ \E e \in Envelopes : ExecutorDone(e)
    \/ \E e \in Envelopes : PublishOutboundUnblocked(e)
    \/ \E e \in Envelopes : OnTaskDone(e)
    \/ OutboundLoop

\* Both agents stored, tight queues.
InitTight == InitBus(TightMaxsize, AgentIds)

BusSpec == InitTight /\ [][BusNext]_vars

\* Turn serialisation: the scheduler and the bus with fire-and-forget
\* publishers (the telegram adapters), both calling Mico.run.
TurnNext ==
    \/ \E a \in AgentIds, content \in Contents :
          PublishInbound(InboundMessage(a, "telegram", content), FALSE, FALSE)
    \/ \E e \in Envelopes : PublishInboundUnblocked(e)
    \/ ConsumeLoop
    \/ PermitAcquired
    \/ \E e \in Envelopes : StartTask(e)
    \/ \E t \in Turns : LockGranted(t)
    \/ \E t \in Turns : ExecutorDone(t)
    \/ \E e \in Envelopes : PublishOutboundUnblocked(e)
    \/ \E e \in Envelopes : OnTaskDone(e)
    \/ OutboundLoop
    \/ SchedTick
    \/ SchedNextJob
    \/ SchedCall
    \/ SchedUpdate

TurnSpec == Init /\ [][TurnNext]_vars

\* The bus with fire-and-forget publishers while the agent worker is
\* stopped (web.py lifespan shutdown): the consumer and the running tasks are
\* cancelled, under the scheduling asyncio gives the tasks.
StopNext ==
    \/ \E a \in AgentIds, content \in Contents :
          PublishInbound(InboundMessage(a, "telegram", content), FALSE, FALSE)
    \/ \E e \in Envelopes : PublishInboundUnblocked(e)
    \/ ConsumeLoop
    \/ PermitAcquired
    \/ \E e \in Envelopes : StartTask(e)
    \/ \E e \in Envelopes : LockGranted(e)
    \/ \E e \in Envelopes : ExecutorDone(e)
    \/ \E e \in Envelopes : PublishOutboundUnblocked(e)
    \/ \E e \in Envelopes : OnTaskDone(e)
    \/ OutboundLoop
    \/ WorkerStop
    \/ CancelTasks
    \/ \E e \in Envelopes : TaskCancelled(e)
    \/ StopJoin

StopTaskStep ==
    \E e \in Envelopes :
        \/ StartTask(e)
        \/ LockGranted(e)
        \/ ExecutorDone(e)
        \/ PublishOutboundUnblocked(e)
        \/ TaskCancelled(e)
        \/ OnTaskDone(e)

StopSpec ==
    /\ InitTight
    /\ [][StopNext]_vars
    /\ WF_vars(StopTaskStep)
    /\ WF_vars(StopJoin)
    /\ WF_vars(OutboundLoop)

\* The scheduler alone, polling a store that holds a one-time job of agent
\* a1 and a job of agent a2, while time passes and agents are deleted.  The
\* row of a2 may carry the status 'deleted' that the schema allows
\* (storage.py:148).
SchedJobs ==
    {[j \in JobIds |-> IF j = "j1" THEN first ELSE second] :
        first \in {OnceJob("j1", "a1", 0), RecurringJob("j1", "a1", 1, 0)},
        second \in {OnceJob("j2", "a2", 1), RecurringJob("j2", "a2", 2, 0)}}

InitSched ==
    /\ \E status \in {"active", "deleted"}, job_rows \in SchedJobs :
          InitWorkersWith(DEFAULT_MAXSIZE,
                          [a \in AgentIds |-> IF a = "a2" THEN status ELSE "active"],
                          job_rows)
    /\ max_parallel = 1
    /\ InitChannels(FALSE)

SchedNext ==
    \/ SchedTick
    \/ SchedNextJob
    \/ SchedCall
    \/ ExecutorDone(SchedTurn)
    \/ SchedUpdate
    \/ Tick
    \/ \E a \in AgentIds : DeleteAgent(a)

SchedStep ==
    \/ SchedTick
    \/ SchedNextJob
    \/ SchedCall
    \/ ExecutorDone(SchedTurn)
    \/ SchedUpdate

\* The poll loop is run again whenever it can go on, and an executor call
\* returns or raises.
SchedSpec == InitSched /\ [][SchedNext]_vars /\ WF_vars(SchedStep)

\* The bus and the scheduler calling Mico.run for the stored agent a1, the
\* bus for the missing agent a2 as well, while the agent worker may be
\* stopped: turns end by returning, by an exception and by cancellation.
\* The scheduler's turn is no task of the worker and is not cancelled.  With
\* a pool of two, two turns of the bus can meet at a lock; with a pool of one
\* the consumer loop waits for a permit.
InitLock ==
    /\ InitWorkersWith(TightMaxsize,
                       [a \in AgentIds |-> IF a = "a1" THEN "active" ELSE None],
                       [j \in JobIds |-> IF j = "j1" THEN OnceJob(j, "a1", 0) ELSE NoJob])
    /\ max_parallel \in {1, 2}
    /\ InitChannelsStarted

LockNext ==
    \/ \E a \in AgentIds, content \in Contents :
          PublishInbound(InboundMessage(a, "telegram", content), FALSE, FALSE)
    \/ \E e \in Envelopes : PublishInboundUnblocked(e)
    \/ ConsumeLoop
    \/ PermitAcquired
    \/ \E e \in Envelopes : StartTask(e)
    \/ \E t \in Turns : LockGranted(t)
    \/ \E t \in Turns : ExecutorDone(t)
    \/ \E e \in Envelopes : PublishOutboundUnblocked(e)
    \/ \E e \in Envelopes : OnTaskDone(e)
    \/ OutboundLoop
    \/ WorkerStop
    \/ CancelTasks
    \/ \E e \in Envelopes : TaskCancelled(e)
    \/ StopJoin
    \/ SchedTick
    \/ SchedNextJob
    \/ SchedCall
    \/ SchedUpdate

\* The tasks of the worker, stop() and the outbound loop are run again
\* whenever they can go on, and so is the scheduler's task, in _poll_loop
\* and in the turn it runs.
LockSpec ==
    /\ InitLock
    /\ [][LockNext]_vars
    /\ WF_vars(StopTaskStep)
    /\ WF_vars(StopJoin)
    /\ WF_vars(OutboundLoop)
    /\ WF_vars(SchedStep \/ LockGranted(SchedTurn))

\* The bus with its default queue capacity, which the traffic never fills:
\* no put ever waits.
InitDefault == InitBus(DEFAULT_MAXSIZE, AgentIds)

FifoNext ==
    \/ \E c \in PublishCalls, a \in AgentIds, content \in Contents :
          PublishInbound(InboundMessage(a, c.channel, content), c.wait_response, c.timed)
    \/ \E e \in Envelopes : ResponseTimeout(e)
    \/ ConsumeLoop
    \/ PermitAcquired
    \/ \E e \in Envelopes : StartTask(e)
    \/ \E e \in Envelopes : LockGranted(e)
    \/ \E e \in Envelopes : ExecutorDone(e)
    \/ \E e \in Envelopes : OnTaskDone(e)
    \/ OutboundLoop

FifoSpec == InitDefault /\ [][FifoNext]_vars

\* A burst of messages from the telegram adapters, one more than MaxEnv,
\* on the bus with its default capacity.
BlockNext ==
    \/ \E a \in AgentIds, content \in Contents :
          PublishInboundUpTo(MaxBurst, InboundMessage(a, "telegram", content), FALSE, FALSE)
    \/ ConsumeLoop
    \/ PermitAcquired
    \/ \E e \in Envelopes : StartTask(e)
    \/ \E e \in Envelopes : LockGranted(e)
    \/ \E e \in Envelopes : ExecutorDone(e)
    \/ \E e \in Envelopes : OnTaskDone(e)
    \/ OutboundLoop

BlockSpec == InitDefault /\ [][BlockNext]_vars

\* Turns of one agent with short and long messages: the telegram adapter
\* publishes for agent a2, whose one-time job the scheduler runs.  Two long
\* messages take the log over the default compaction threshold.
ContextContents == {"hi", LongText}

ContextNext ==
    \/ \E content \in ContextContents :
          PublishInbound(InboundMessage("a2", "telegram", content), FALSE, FALSE)
    \/ ConsumeLoop
    \/ PermitAcquired
    \/ \E e \in Envelopes : StartTask(e)
    \/ \E t \in Turns : LockGranted(t)
    \/ \E t \in Turns : ExecutorDone(t)
    \/ \E e \in Envelopes : OnTaskDone(e)
    \/ OutboundLoop
    \/ SchedTick
    \/ SchedNextJob
    \/ SchedCall
    \/ SchedUpdate

ContextSpec == InitDefault /\ [][ContextNext]_vars

\* The bus driven through its API as tests/test_bus.py:61-72 drives it: the
\* caller waits for the reply with a timeout and nothing has checked the
\* message, whose content may be blank and whose agent ("a2") may not be
\* stored.
FaultContents == {"hi", " "}

InitFault == InitBus(TightMaxsize, {"a1"})

FaultNext ==
    \/ \E a \in AgentIds, content \in FaultContents :
          PublishInbound(InboundMessage(a, "web", content), TRUE, TRUE)
    \/ \E e \in Envelopes : PublishInboundUnblocked(e)
    \/ \E e \in Envelopes : ResponseTimeout(e)
    \/ ConsumeLoop
    \/ PermitAcquired
    \/ \E e \in Envelopes : StartTask(e)
    \/ \E e \in Envelopes : LockGranted(e)
    \/ \E e \in Envelopes : ExecutorDone(e)
    \/ \E e \in Envelopes : PublishOutboundUnblocked(e)
    \/ \E e \in Envelopes : OnTaskDone(e)
    \/ OutboundLoop

FaultSpec == InitFault /\ [][FaultNext]_vars

\* Outbound dispatch: messages published on the outbound queue and the
\* outbound loop, while the channel manager is started and stopped.  The agent
\* worker is idle, its pool of one.
InitSend ==
    /\ InitWorkers(DEFAULT_MAXSIZE, AgentIds)
    /\ max_parallel = 1
    /\ \E enabled \in BOOLEAN : InitChannels(enabled)

SendNext ==
    \/ \E channel \in Channels : PublishOutbound(channel)
    \/ OutboundLoop
    \/ ChannelManagerStart
    \/ ChannelManagerStop
    \/ ChannelManagerStopDone

SendSpec == InitSend /\ [][SendNext]_vars

\* The outbound loop is run again whenever it can go on.
SendLiveSpec == SendSpec /\ WF_vars(OutboundLoop)

\* The sender registry: register/unregister calls from the channel manager
\* and from other code (which registers its own sender, as
\* tests/test_bus.py:57 does), and direct calls of send with a message of
\* the channel or, mismatched, of the web channel.
RegistryNext ==
    \/ \E channel \in Channels, mc \in Channels :
          /\ mc \in {channel, "web"}
          /\ SendDirect(channel, DirectMessage(mc, Len(delivered) + Len(send_errors) + 1))
    \/ \E channel \in Channels : RegisterSender(channel, "capture_sender")
    \/ \E channel \in Channels : UnregisterSender(channel)
    \/ ChannelManagerStart
    \/ ChannelManagerStop
    \/ ChannelManagerStopDone

RegistrySpec == InitSend /\ [][RegistryNext]_vars

\* The telegram service: the manager started and stopped with telegram
\* enabled over the agent channels stored (none, a blank token or a token
\* for each agent), and direct calls of send for either agent, under either
\* channel, with a message of either channel.
StoredTokens == {None, " ", "123:abc"}

InitTelegram ==
    /\ InitWorkers(DEFAULT_MAXSIZE, AgentIds)
    /\ max_parallel = 1
    /\ \E rows \in [AgentIds -> StoredTokens] : InitChannelsWith(TRUE, rows)

TelegramNext ==
    \/ \E channel \in Channels, mc \in Channels, a \in AgentIds :
          SendDirect(channel,
                     DirectMessageFor(a, mc, Len(delivered) + Len(send_errors) + 1))
    \/ ChannelManagerStart
    \/ AdapterStart
    \/ ChannelManagerStop
    \/ ChannelManagerStopDone

TelegramSpec == InitTelegram /\ [][TelegramNext]_vars

\* The compactor called directly on the log of one agent, which grows by
\* messages added directly, while time passes.
InitCompact ==
    /\ InitWorkers(DEFAULT_MAXSIZE, AgentIds)
    /\ max_parallel = 1
    /\ InitChannels(FALSE)

CompactNext ==
    \/ \E kind \in RowKinds : AddMessage("a1", kind, "0a")
    \/ \E args \in CompactArgs : CompactCall("a1", args)

CompactSpec == InitCompact /\ [][CompactNext]_vars

\* _split_message called on a text of up to MaxText characters with a limit
\* of 1 to MaxLimit.
Texts == UNION {[1 .. n -> Alphabet] : n \in 0 .. MaxText}

InitSplit ==
    /\ \E text \in Texts, max_len \in 1 .. MaxLimit :
          InitWorkersCalling(DEFAULT_MAXSIZE, [a \in AgentIds |-> "active"],
                             [j \in JobIds |-> NoJob], <<"split", text, max_len>>)
    /\ max_parallel = 1
    /\ InitChannels(FALSE)

SplitNext == SplitCall

SplitSpec == InitSplit /\ [][SplitNext]_vars

\* The compactor called on a log and called again at once: messages are
\* added before the first call only.
RerunNext ==
    \/ /\ fn_calls = 0
       /\ \E kind \in RowKinds : AddMessage("a1", kind, "0a")
    \/ \E args \in CompactArgs : CompactCall("a1", args)

RerunSpec == InitCompact /\ [][RerunNext]_vars

\* The context selection called directly on a log that grows.
SelectNext ==
    \/ \E kind \in RowKinds : AddMessage("a1", kind, "0a")
    \/ \E token_budget \in TokenBudgets : SelectCall("a1", token_budget)

SelectionSpec == InitCompact /\ [][SelectNext]_vars

\* Compactions of one log whose message ids start alike or not, within one
\* second or not.
ArchiveNext ==
    \/ \E kind \in {k \in RowKinds : k[1] = "assistant" \/ k[2] = "hi"},
          prefix \in IdPrefixes : AddMessage("a1", kind, prefix)
    \/ CompactCall("a1", <<20, 12, 6>>)
    \/ Tick

ArchiveSpec == InitCompact /\ [][ArchiveNext]_vars

\* ---------------------------------------------------------- properties

\* Turn t is inside the locked section of Mico.run, suspended in the
\* executor call.
InLockedSection(t) == tpc[t] = "exec"

\* Turn t has called Mico.run and has not passed `async with lock` yet.
BeforeLock(t) ==
    IF t = SchedTurn
    THEN sched.pc = "call" \/ tpc[t] = "lockwait"
    ELSE tpc[t] \in {"ready", "lockwait"}

\* A step in which turn t enters the locked section: it was before the
\* lock, and it is now in the executor call or already out of Mico.run.
EntersLockedSection(t) ==
    /\ BeforeLock(t)
    /\ IF t = SchedTurn
       THEN tpc'[t] = "exec" \/ sched'.pc = "update"
       ELSE tpc'[t] \in {"exec", "publishing", "finished"}

\* C1: at any instant at most one turn per agent_id is inside the locked
\* section of Mico.run, whether the turns come from the bus or from the
\* scheduler: no two turns of one agent are in the executor call together,
\* and no turn enters the locked section while another turn of its agent is
\* inside.
C1_MutualExclusion ==
    /\ [](\A t \in Turns, u \in Turns :
            (t # u /\ InLockedSection(t) /\ InLockedSection(u)) => AgentOf(t) # AgentOf(u))
    /\ [][\A t \in Turns :
            EntersLockedSection(t) =>
                \A u \in Turns \ {t} : InLockedSection(u) => AgentOf(u) # AgentOf(t)]_vars

\* The scheduler's turn is in the executor call while a bus turn of the same
\* agent waits for the lock.
C1_Witness ==
    \E e \in Envelopes :
        /\ tpc[SchedTurn] = "exec"
        /\ tpc[e] = "lockwait"
        /\ AgentOf(e) = AgentOf(SchedTurn)

\* C2: the agent worker never has more than max_parallel turns active, a
\* max_parallel that the constructor clamped to at least 1; while the pool
\* is saturated no step adds a task, and the envelope the consumer loop
\* holds while it waits for a permit has no task yet.
C2_ParallelBound ==
    /\ [](/\ max_parallel >= 1
          /\ Cardinality(active_tasks) <= max_parallel
          /\ consumer.pc = "acquire" =>
                /\ tpc[consumer.envelope] = "none"
                /\ consumer.envelope \notin active_tasks)
    /\ [][Cardinality(active_tasks) >= max_parallel =>
            active_tasks' \subseteq active_tasks]_vars

\* The pool is saturated and the consumer loop waits for a permit with an
\* envelope in hand.
C2_Witness ==
    /\ consumer.pc = "acquire"
    /\ Cardinality(active_tasks) = max_parallel

\* The envelope's task has left _process_envelope.
Processed(e) == tpc[e] \in {"finished", "done"}

\* What the caller or the channel is to get for envelope e once Mico.run
\* has ended: the returned string, or the error text for a raised exception.
ExpectedResponse(e) ==
    IF outcome[e].kind = "raise"
    THEN "Error while processing your message: " \o outcome[e].text
    ELSE outcome[e].text

\* Positions of the outbound messages published for envelope e.
OutboundFor(e) == {i \in DOMAIN out_put : out_put[i].id = e}

\* The outbound message envelope e calls for.
ExpectedOutbound(e) ==
    [agent_id |-> env[e].message.agent_id,
     channel |-> env[e].message.channel,
     content |-> ExpectedResponse(e),
     chat_id |-> env[e].message.chat_id,
     id |-> e]

\* C3: a publish_inbound(wait_response=True) call that returns, returns the
\* response of the turn run for its own envelope, the string Mico.run
\* returned when it returned one; a fire-and-forget call returns None.
C3_ResponseCorrelation ==
    \A e \in Envelopes :
        HasReturned(e) =>
            IF env[e].wait_response
            THEN /\ outcome[e].kind # "none"
                 /\ ReturnValue(e) = ExpectedResponse(e)
                 /\ outcome[e].kind = "value" => ReturnValue(e) = outcome[e].text
            ELSE ReturnValue(e) = None

\* Two waiting callers have both got their reply, and the replies differ.
C3_Witness ==
    \E e1 \in Envelopes, e2 \in Envelopes :
        /\ e1 # e2
        /\ env[e1].wait_response /\ env[e2].wait_response
        /\ HasReturned(e1) /\ HasReturned(e2)
        /\ outcome[e1].kind = "value" /\ outcome[e2].kind = "value"
        /\ ReturnValue(e1) # ReturnValue(e2)

\* C4: when Mico.run raised for envelope e the task goes on: once it has
\* left _process_envelope, the text 'Error while processing your message: '
\* followed by the exception's message was published as an OutboundMessage to
\* the envelope's channel and chat, and a response future that was still
\* pending was resolved with that same text.
C4_ErrorReply ==
    \A e \in Envelopes :
        outcome[e].kind = "raise" =>
            /\ tpc[e] \in {"publishing", "finished", "done"}
            /\ Processed(e) =>
                  /\ \E i \in DOMAIN out_put :
                        out_put[i] =
                            [agent_id |-> env[e].message.agent_id,
                             channel |-> env[e].message.channel,
                             content |-> "Error while processing your message: "
                                            \o outcome[e].text,
                             chat_id |-> env[e].message.chat_id,
                             id |-> e]
                  /\ env[e].wait_response =>
                        \/ fut[e].state = "cancelled"
                        \/ fut[e] = [state |-> "result",
                                     value |-> "Error while processing your message: "
                                                  \o outcome[e].text]

\* Mico.run raised for blank input and the caller's future holds the error
\* text; for another envelope it raised because the agent is not stored.
C4_Witness ==
    \E e1 \in Envelopes, e2 \in Envelopes :
        /\ outcome[e1] = Raised(NoInputError)
        /\ Processed(e1)
        /\ fut[e1].state = "result"
        /\ outcome[e2] = Raised("Agent 'a2' not found.")
        /\ Processed(e2)

\* The rows the turn of envelope e appended to its agent's log: the user
\* message, then the assistant message when the reply is not blank.
PersistedTurn(e) ==
    LET rows == messages[env[e].message.agent_id]
        user == [content |-> Strip(env[e].message.content),
                 id |-> <<e, "user">>, role |-> "user", turn |-> e]
        assistant == [content |-> Strip(outcome[e].text),
                      id |-> <<e, "assistant">>, role |-> "assistant", turn |-> e]
    IN \E i \in DOMAIN rows :
          /\ rows[i] = user
          /\ Strip(outcome[e].text) # "" => (i < Len(rows) /\ rows[i + 1] = assistant)

\* C5: a caller's timeout does not touch the turn.  The abandoned future
\* stays cancelled and the call returns nothing; Mico.run is called once for
\* the envelope; when the task has left _process_envelope a returned result
\* is persisted and a non-blank response was published outbound once.  No
\* future, once resolved or cancelled, is written again.
C5_TimeoutIndependent ==
    /\ [](\A e \in Envelopes :
            pub[e] = "timeout" =>
                /\ fut[e].state = "cancelled"
                /\ ~HasReturned(e)
                /\ calls[e] <= 1
                /\ Processed(e) =>
                      /\ calls[e] = 1
                      /\ outcome[e].kind = "value" => PersistedTurn(e)
                      /\ Strip(ExpectedResponse(e)) # "" =>
                            /\ Cardinality(OutboundFor(e)) = 1
                            /\ \E i \in OutboundFor(e) : out_put[i] = ExpectedOutbound(e))
    /\ [][\A e \in Envelopes :
            fut[e].state \in {"result", "cancelled"} => fut'[e] = fut[e]]_vars

\* A caller timed out, and the turn of its envelope still returned a
\* non-blank reply and left _process_envelope.
C5_Witness ==
    \E e \in Envelopes :
        /\ pub[e] = "timeout"
        /\ Processed(e)
        /\ outcome[e].kind = "value"
        /\ Strip(outcome[e].text) # ""

\* Number of times x occurs in sequence s.
Count(s, x) == Cardinality({i \in DOMAIN s : s[i] = x})

\* C6: neither queue ever holds more than its capacity, and nothing
\* published is dropped: a published envelope is either still waiting in put
\* or was enqueued exactly once, and a non-blank response is either still
\* waiting in put or was enqueued exactly once.
C6_QueueCapacity ==
    /\ Len(inbound) <= inbound_maxsize
    /\ Len(outbound) <= outbound_maxsize
    /\ \A e \in Envelopes :
          /\ pub[e] = "none" => Count(put_order, e) = 0
          /\ pub[e] = "putting" => Count(put_order, e) = 0
          /\ pub[e] \notin {"none", "putting"} => Count(put_order, e) = 1
          /\ tpc[e] = "publishing" =>
                /\ Cardinality(OutboundFor(e)) = 0
                /\ tresp[e] = ExpectedResponse(e)
          /\ (Processed(e) /\ Strip(ExpectedResponse(e)) # "") =>
                Cardinality(OutboundFor(e)) = 1

\* The inbound queue is full and a publisher waits in put.
C6_Witness ==
    \E e \in Envelopes :
        /\ pub[e] = "putting"
        /\ Len(inbound) = inbound_maxsize

\* s has no element twice.
NoDuplicates(s) == \A i \in DOMAIN s, j \in DOMAIN s : i # j => s[i] # s[j]

\* C7: each queue is first-in first-out and hands out each item once: what
\* was dequeued, followed by what is still queued, is what was enqueued, in
\* the order the puts completed; no envelope and no outbound message is
\* dequeued twice.
C7_QueueFifo ==
    /\ put_order = got_order \o inbound
    /\ out_put = out_got \o outbound
    /\ NoDuplicates(got_order)
    /\ NoDuplicates(out_got)

\* Several envelopes and several outbound messages went through the queues
\* and were all dequeued.
C7_Witness ==
    /\ Len(got_order) >= 2
    /\ Len(out_got) >= 2
    /\ inbound = <<>>
    /\ outbound = <<>>

\* C8: for an envelope whose task has left _process_envelope with a
\* non-blank response exactly one OutboundMessage was published, with the
\* inbound message's agent_id, channel and chat_id and the response as
\* content; with a blank response none was published and a future that was
\* not abandoned holds the blank text.  Before Mico.run ended nothing is
\* published for the envelope.
C8_OneOutbound ==
    \A e \in Envelopes :
        /\ Cardinality(OutboundFor(e)) <= 1
        /\ outcome[e].kind = "none" => OutboundFor(e) = {}
        /\ Processed(e) =>
              IF Strip(ExpectedResponse(e)) # ""
              THEN /\ Cardinality(OutboundFor(e)) = 1
                   /\ \A i \in OutboundFor(e) : out_put[i] = ExpectedOutbound(e)
              ELSE /\ OutboundFor(e) = {}
                   /\ env[e].wait_response =>
                         \/ fut[e].state = "cancelled"
                         \/ fut[e] = [state |-> "result", value |-> ExpectedResponse(e)]

\* One envelope ended with a blank result that resolved its future, another
\* with a reply that was published.
C8_Witness ==
    \E e1 \in Envelopes, e2 \in Envelopes :
        /\ Processed(e1) /\ Processed(e2)
        /\ outcome[e1] = [text |-> " ", kind |-> "value"]
        /\ fut[e1] = [state |-> "result", value |-> " "]
        /\ outcome[e2].kind = "value"
        /\ OutboundFor(e2) # {}

\* The put of e1 completed before the put of e2.
PutBefore(e1, e2) ==
    \E i \in DOMAIN put_order, j \in DOMAIN put_order :
        i < j /\ put_order[i] = e1 /\ put_order[j] = e2

\* Envelope e's turn has passed `async with lock`.
PastLock(e) == tpc[e] \in {"exec", "publishing", "finished", "done"}

\* Envelope e's Mico.run call has ended.
RunEnded(e) == tpc[e] \in {"publishing", "finished", "done"}

ConsumerStep == ConsumeLoop \/ PermitAcquired

TaskStep ==
    \E e \in Envelopes :
        \/ StartTask(e)
        \/ LockGranted(e)
        \/ ExecutorDone(e)
        \/ PublishOutboundUnblocked(e)
        \/ OnTaskDone(e)

\* The bus pipeline with the scheduling asyncio gives it: the consumer loop,
\* the spawned tasks and the outbound loop are run again whenever they can go
\* on, and an executor call returns or raises.  Publishers and callers get
\* no fairness.
LiveSpec ==
    /\ BusSpec
    /\ WF_vars(ConsumerStep)
    /\ WF_vars(TaskStep)
    /\ WF_vars(OutboundLoop)

\* The same scheduling for the bus driven with blank messages and messages
\* for an agent that is not stored.
FaultLiveSpec ==
    /\ FaultSpec
    /\ WF_vars(ConsumerStep)
    /\ WF_vars(TaskStep)
    /\ WF_vars(OutboundLoop)

\* Envelope e is on the inbound queue or was: its put completed.
Enqueued(e) == pub[e] \notin {"none", "putting"}

\* C10: every enqueued envelope is eventually dequeued, its turn run once to
\* its end, its task finished, and its response future, if it has one, no
\* longer pending.
C10_PipelineLiveness ==
    \A e \in Envelopes :
        Enqueued(e) ~>
            (/\ Count(got_order, e) = 1
             /\ calls[e] = 1
             /\ outcome[e].kind # "none"
             /\ tpc[e] = "done"
             /\ fut[e].state # "pending")

\* Every envelope went through the pipeline, one of them after waiting for
\* its reply, which it got.
C10_Witness ==
    /\ \A e \in 1 .. MaxEnv : tpc[e] = "done"
    /\ \E e \in Envelopes : env[e].wait_response /\ fut[e].state = "result"

\* The ids of the messages whose send failed.
FailedIds == {send_errors[i][1] : i \in DOMAIN send_errors}

\* The outbound messages handed to a sender.
Handed == {delivered[i][2] : i \in DOMAIN delivered}

\* C11: a delivery that raises (no sender registered, or the sender fails) is
\* logged and the message dropped: it is not put back on the queue and not
\* handed to a sender a second time; the dispatch loop stays alive, and
\* every message published outbound is eventually taken off the queue.
C11_DispatchIsolation ==
    /\ [](/\ outloop = "running"
          /\ out_put = out_got \o outbound
          /\ NoDuplicates(out_got)
          /\ \A i \in DOMAIN out_got :
                /\ Count([k \in DOMAIN delivered |-> delivered[k][2]], out_got[i]) <= 1
                /\ Count([k \in DOMAIN send_errors |-> send_errors[k][1]], out_got[i].id) <= 1
                /\ out_got[i] \in Handed \/ out_got[i].id \in FailedIds
          /\ \A m \in Handed : \E i \in DOMAIN out_got : out_got[i] = m)
    /\ \A n \in 1 .. MaxOut : (Len(out_put) >= n) ~> (Len(out_got) >= n)

\* A message was dropped for want of a sender, a later one because its sender
\* failed, and one dequeued after both was delivered.
C11_Witness ==
    \E i \in DOMAIN out_got, j \in DOMAIN out_got, k \in DOMAIN out_got :
        /\ i < k /\ j < k
        /\ <<out_got[i].id, NoSenderError(out_got[i].channel)>> \in
              {send_errors[e] : e \in DOMAIN send_errors}
        /\ out_got[j] \in Handed
        /\ out_got[j].id \in FailedIds
        /\ out_got[k] \in Handed
        /\ out_got[k].id \notin FailedIds

\* The sender the register/unregister calls of `log` leave for `channel`:
\* that of the last call naming the channel, if it was a register.
RECURSIVE LastRegistered(_, _)
LastRegistered(log, channel) ==
    IF log = <<>>
    THEN None
    ELSE LET last == log[Len(log)]
         IN IF last[2] = channel
            THEN IF last[1] = "register" THEN last[3] ELSE None
            ELSE LastRegistered(SubSeq(log, 1, Len(log) - 1), channel)

\* ChannelManager.start returned, or raised in the telegram service.
ManagerStarted == ~cm_running /\ cm_running'

\* ChannelManager.stop returned.
ManagerStopped ==
    \/ cm_running /\ ~cm_running' /\ ~cm_stopping'
    \/ cm_stopping /\ ~cm_stopping'

\* C12: a send invokes the sender most recently registered for its channel
\* and not unregistered since, and no other; with none registered it raises
\* 'No sender registered' and invokes nothing.  When ChannelManager.start
\* has run a send on 'web' invokes a sender, when stop has run it raises.
C12_SenderRegistry ==
    /\ [](\A c \in Channels : sender_registry[c] = LastRegistered(reg_log, c))
    /\ [][
           /\ delivered' # delivered =>
                /\ Len(delivered') = Len(delivered) + 1
                /\ SubSeq(delivered', 1, Len(delivered)) = delivered
                /\ LET d == delivered'[Len(delivered')]
                   IN /\ d[1] # None
                      /\ d[1] = LastRegistered(reg_log, d[2].channel)
           /\ \A c \in Channels :
                (/\ Len(send_errors') = Len(send_errors) + 1
                 /\ send_errors'[Len(send_errors')][2] = NoSenderError(c)) =>
                    /\ LastRegistered(reg_log, c) = None
                    /\ delivered' = delivered
           /\ \A c \in Channels :
                (/\ LastRegistered(reg_log, c) = None
                 /\ <<delivered, send_errors>>' # <<delivered, send_errors>>) =>
                    \/ delivered' # delivered /\ delivered'[Len(delivered')][2].channel # c
                    \/ /\ delivered' = delivered
                       /\ send_errors'[Len(send_errors')][2] \in
                             {NoSenderError(x) : x \in Channels} \cup {MismatchError}
           /\ ManagerStarted =>
                send(sender_registry', "web", DirectMessage("web", 1))[1] = "invoke"
           /\ ManagerStopped =>
                send(sender_registry', "web", DirectMessage("web", 1)) =
                    <<"raise", "No sender registered for channel web.">>]_vars

\* The manager registered the web sender, other code registered its own over
\* it and a send on web invoked that one; a send on an unregistered channel
\* failed.
C12_Witness ==
    /\ \E i \in DOMAIN reg_log, j \in DOMAIN reg_log :
          /\ i < j
          /\ reg_log[i] = <<"register", "web", "_discard_sender">>
          /\ reg_log[j] = <<"register", "web", "capture_sender">>
    /\ \E k \in DOMAIN delivered :
          delivered[k][1] = "capture_sender" /\ delivered[k][2].channel = "web"
    /\ \E k \in DOMAIN send_errors : send_errors[k][2] = NoSenderError("telegram")

\* ------------------------------------------------- compact.py properties
\* The last call recorded is a call of `name` that returned.
ReturnedFrom(name) == fn_call[1] = name /\ fn_result[1] = "return"

\* The last k messages of a log, and what they cost together.
Suffix(rows, k) == SubSeq(rows, Len(rows) - k + 1, Len(rows))
SuffixCost(rows, k) == SumSeq(token_counts_of(Suffix(rows, k)))

\* The length of the longest suffix of a log that costs at most the budget.
LongestFitting(rows, token_budget) ==
    CHOOSE k \in 0 .. Len(rows) :
        /\ SuffixCost(rows, k) <= token_budget
        /\ \A j \in 0 .. Len(rows) : SuffixCost(rows, j) <= token_budget => j <= k

\* C13: context selection returns, in the log's order, the longest
\* contiguous suffix of the log that costs at most token_budget, or the
\* newest message alone when even that one costs more; it is empty only for
\* an empty log, and it leaves out no message newer than one it returns.
C13_SelectionIsLongestSuffix ==
    ReturnedFrom("select") =>
        LET rows == fn_before
            token_budget == fn_call[3]
            selected == fn_result[2]
            fitting == LongestFitting(rows, token_budget)
        IN /\ Len(selected) <= Len(rows)
           /\ selected = Suffix(rows, Len(selected))
           /\ rows # <<>> => Len(selected) = Max(1, fitting)
           /\ rows = <<>> => selected = <<>>

\* A selection that stops inside the log, and one of a newest message that
\* alone costs more than the budget, is the case of C13.
C13_Witness ==
    /\ ReturnedFrom("select")
    /\ Len(fn_before) = MaxLog
    /\ \/ Len(fn_result[2]) = 2 /\ SuffixCost(fn_before, 2) <= fn_call[3]
       \/ Len(fn_result[2]) = 1 /\ SuffixCost(fn_before, 1) > fn_call[3]

\* C14: context selection on a log that costs at most token_budget returns
\* the whole log, unchanged and in order; selecting again with the same
\* budget on the same log returns the same sequence; and a selection
\* changes neither the log nor the memories.
C14_SelectionIdempotent ==
    [][
        /\ fn_calls' # fn_calls
        /\ fn_call'[1] = "select"
        =>
        /\ logVars' = logVars
        /\ fn_before' = messages[fn_call'[2]]
        /\ fn_result'[1] = "return" =>
              /\ SuffixCost(fn_before', Len(fn_before')) <= fn_call'[3]
                    => fn_result'[2] = fn_before'
              /\ fn_call = fn_call' /\ fn_before = fn_before' /\ fn_result[1] = "return"
                    => fn_result'[2] = fn_result[2]
    ]_vars

\* A second selection with the same budget on the same log of several
\* messages, which fits the budget exactly, is the case of C14.
C14_Witness ==
    /\ ReturnedFrom("select")
    /\ fn_prev = <<fn_call, fn_before, fn_result>>
    /\ Len(fn_before) >= 2
    /\ SuffixCost(fn_before, Len(fn_before)) = fn_call[3]
    /\ fn_result[2] = messages[fn_call[2]]

\* A step that is a call of compact_conversation_if_needed which returned.
CompactReturns == fn_calls' # fn_calls /\ fn_call'[1] = "compact" /\ fn_result'[1] = "return"

\* The cost of a whole log.
LogCost(rows) == SuffixCost(rows, Len(rows))

\* C15: a compaction that finds the log empty, or its cost strictly below
\* threshold_tokens, or nothing to remove (the protected tail is the whole
\* log, or the cost is already at the target) reports not-triggered; and a
\* compaction that reports not-triggered deletes no message and upserts no
\* memory.
C15_NotTriggeredNoOp ==
    [][
        CompactReturns =>
            LET rows == fn_before'
                threshold_tokens == fn_call'[3]
                target_tokens_after == fn_call'[4]
                keep_recent_tokens == fn_call'[5]
                result == fn_result'[2]
            IN /\ rows = messages[fn_call'[2]]
               /\ \/ rows = <<>>
                  \/ LogCost(rows) < threshold_tokens
                  \/ LogCost(rows) <= keep_recent_tokens
                  \/ Len(rows) = 1
                  \/ LogCost(rows) <= target_tokens_after
                  => ~result.triggered
               /\ ~result.triggered =>
                     /\ messages' = messages
                     /\ memories' = memories
                     /\ compacted_ids' = compacted_ids
                     /\ result.compacted_messages = 0
                     /\ result.memory_name = None
    ]_vars

\* A compaction of a log of several messages that costs the threshold or
\* more and yet has nothing to remove is the case of C15.
C15_Witness ==
    /\ ReturnedFrom("compact")
    /\ ~fn_result[2].triggered
    /\ Len(fn_before) >= 2
    /\ LogCost(fn_before) >= fn_call[3]
    /\ messages[fn_call[2]] = fn_before
    /\ memories[fn_call[2]] = <<>>

IdSet(rows) == {rows[i].id : i \in DOMAIN rows}

\* C16: a compaction that reports triggered has removed a non-empty prefix
\* of the ordered log and kept the remaining suffix, so that removed and
\* kept are disjoint and together the log as it was; and the
\* total_tokens_after it reports is total_tokens_before minus
\* compacted_tokens, which is the cost of the kept suffix.
C16_PrefixRemoved ==
    [][
        CompactReturns /\ fn_result'[2].triggered =>
            LET rows == fn_before'
                result == fn_result'[2]
                n == result.compacted_messages
                kept == messages'[fn_call'[2]]
                removed == SubSeq(rows, 1, n)
            IN /\ rows = messages[fn_call'[2]]
               /\ n >= 1 /\ n <= Len(rows)
               /\ kept = SubSeq(rows, n + 1, Len(rows))
               /\ removed \o kept = rows
               /\ compacted_ids' \ compacted_ids = IdSet(removed)
               /\ IdSet(removed) \cap IdSet(kept) = {}
               /\ result.total_tokens_before = LogCost(rows)
               /\ result.compacted_tokens = LogCost(removed)
               /\ result.total_tokens_after
                     = result.total_tokens_before - result.compacted_tokens
               /\ result.total_tokens_after = LogCost(kept)
               /\ result.kept_recent_messages = Len(kept)
               /\ result.kept_recent_tokens = LogCost(kept)
    ]_vars

\* A compaction that removed several messages and kept several is the case
\* of C16.
C16_Witness ==
    /\ ReturnedFrom("compact")
    /\ fn_result[2].triggered
    /\ fn_result[2].compacted_messages >= 2
    /\ Len(messages[fn_call[2]]) >= 1
    /\ fn_before = SubSeq(fn_before, 1, fn_result[2].compacted_messages)
                       \o messages[fn_call[2]]

\* The 0-based index at which the protected tail of a log starts.
TailStart(rows, keep_recent_tokens) ==
    _find_recent_tail_start(token_counts_of(rows), keep_recent_tokens)[1]

\* C17: for every log and every valid setting of the thresholds, the
\* number of messages a compaction removes is at most the start index of the
\* protected tail (the longest suffix that costs at most keep_recent_tokens,
\* the newest message at least), so every message of that tail is in the
\* log afterwards, whether the target was reached or not.
C17_TailProtected ==
    [][
        CompactReturns =>
            LET rows == fn_before'
                kept == messages'[fn_call'[2]]
                tail_start == TailStart(rows, fn_call'[5])
                tail == Suffix(rows, Len(rows) - tail_start)
            IN /\ rows = messages[fn_call'[2]]
               /\ rows # <<>> =>
                     Len(tail) = Max(1, LongestFitting(rows, fn_call'[5]))
               /\ Len(rows) - Len(kept) <= tail_start
               /\ fn_result'[2].compacted_messages <= tail_start
               /\ Len(tail) <= Len(kept)
               /\ tail = Suffix(kept, Len(tail))
    ]_vars

\* A compaction that removed everything before the protected tail of
\* several messages and still is above its target is the case of C17.
C17_Witness ==
    /\ ReturnedFrom("compact")
    /\ fn_result[2].triggered
    /\ fn_result[2].compacted_messages = TailStart(fn_before, fn_call[5])
    /\ fn_result[2].total_tokens_after > fn_call[4]
    /\ messages[fn_call[2]] = Suffix(fn_before, Len(fn_before) - TailStart(fn_before, fn_call[5]))

\* C18: a compaction that reports triggered either leaves a log that costs
\* at most target_tokens_after or has removed every message before the
\* protected tail; and it removed no more than needed: the removed prefix
\* without its last message costs strictly less than total_before minus
\* target_tokens_after.
C18_ExactlyEnough ==
    [][
        CompactReturns /\ fn_result'[2].triggered =>
            LET rows == fn_before'
                result == fn_result'[2]
                n == Len(rows) - Len(messages'[fn_call'[2]])
                target_tokens_after == fn_call'[4]
            IN /\ n = result.compacted_messages
               /\ \/ LogCost(messages'[fn_call'[2]]) <= target_tokens_after
                  \/ n = TailStart(rows, fn_call'[5])
               /\ LogCost(SubSeq(rows, 1, n - 1)) < LogCost(rows) - target_tokens_after
    ]_vars

\* A compaction that reached its target exactly, before the protected
\* tail, is the case of C18.
C18_Witness ==
    /\ ReturnedFrom("compact")
    /\ fn_result[2].triggered
    /\ fn_result[2].total_tokens_after = fn_call[4]
    /\ fn_result[2].compacted_messages < TailStart(fn_before, fn_call[5])
    /\ LogCost(messages[fn_call[2]]) = fn_call[4]

\* The id is listed in the payload of one of the agents' memories.
Archived(id) ==
    \E agent_id \in AgentIds :
        \E i \in DOMAIN memories[agent_id] : InSeq(id, memories[agent_id][i].ids)

\* Each triggered compaction upserts one memory that lists the ids of the
\* removed messages in log order, and the memory is in the store when the
\* messages are deleted and when the delete fails.
ArchiveThenDelete ==
    [][
        fn_calls' # fn_calls /\ fn_call'[1] = "compact" /\ memories' # memories =>
            LET agent_id == fn_call'[2]
                removed == SubSeq(messages[agent_id], 1,
                                  Len(messages[agent_id]) - Len(messages'[agent_id]))
            IN /\ Len(memories'[agent_id]) <= Len(memories[agent_id]) + 1
               /\ \E i \in DOMAIN memories'[agent_id] :
                     /\ memories'[agent_id][i].ids
                           = RowIds(CompactionPlan(messages[agent_id], fn_call'[3],
                                                   fn_call'[4], fn_call'[5]).compacted_rows)
                     /\ \A j \in DOMAIN memories'[agent_id] \ {i} :
                           /\ j \in DOMAIN memories[agent_id]
                           /\ memories'[agent_id][j] = memories[agent_id][j]
                     /\ fn_result'[1] = "return" => memories'[agent_id][i].ids = RowIds(removed)
                     /\ fn_result'[1] = "raise" => messages' = messages
    ]_vars

\* C19: archive before delete: in no reachable state, the states after a
\* compaction that was stopped between its upsert and its delete included,
\* has compaction deleted a message whose id is not listed in the payload
\* of a memory of the store.
C19_ArchiveBeforeDelete == \A id \in compacted_ids : Archived(id)

\* ---------------------------------------------------- agent.py properties
\* Neither input of turn e's Mico.run call has a character that is not
\* white space.
BlankInputs(e) ==
    /\ TurnArgs(e).user_input \in {None, "", " "}
    /\ TurnArgs(e).system_input \in {None, "", " "}

\* C20: a Mico.run call whose user_input and system_input are both absent
\* or blank ends with the invalid-input error at once: it takes and creates
\* no lock and does not queue for one, even for an agent that is not stored
\* or whose lock is held; no compaction runs, the executor is not called and
\* no message or memory is written, then or later.
C20_BlankInputRejected ==
    [][
        \A e \in Envelopes :
            BlankInputs(e) =>
                /\ calls'[e] = calls[e] + 1 =>
                      /\ outcome'[e] = Raised(NoInputError)
                      /\ locks' = locks
                      /\ logVars' = logVars
                /\ tpc'[e] \notin {"lockwait", "exec"}
                /\ \A a \in AgentIds :
                      /\ \A i \in DOMAIN messages'[a] : messages'[a][i].turn # e
                      /\ ~InSeq(e, locks'[a].waiters)
    ]_vars

\* A blank message rejected while another turn of the same agent holds the
\* agent's lock in the executor is the case of C20.
C20_Witness ==
    \E e1, e2 \in Envelopes :
        /\ BlankInputs(e1)
        /\ outcome[e1] = Raised(NoInputError)
        /\ env[e1].message.agent_id = env[e2].message.agent_id
        /\ tpc[e2] = "exec"
        /\ locks[env[e2].message.agent_id].locked

\* Envelope e carries a non-blank message for an agent the store has no
\* row of.
ForAbsentAgent(e) ==
    /\ AgentOf(e) \in AgentIds
    /\ agents[AgentOf(e)] = None
    /\ ~BlankInputs(e)

\* C21: a turn for an agent_id the store has no row of ends with an error
\* in the step that calls Mico.run, with the store as it was: no compaction
\* ran, the executor is never awaited and no message is ever in the log of
\* that id.  An envelope of such a turn is handed to Mico.run once only, the
\* error text is published and resolves the pending future, and every
\* envelope enqueued besides it is still processed to its end.
C21_AgentNotFound ==
    /\ [][
           \A e \in Envelopes :
               ForAbsentAgent(e) =>
                   /\ calls'[e] = calls[e] + 1 =>
                         /\ outcome'[e] \in {Raised(NotFoundError(AgentOf(e))),
                                             Raised(StorageError)}
                         /\ logVars' = logVars
                         /\ locks'[AgentOf(e)].locked = locks[AgentOf(e)].locked
                   /\ calls'[e] <= 1
                   /\ Count(got_order', e) <= 1
                   /\ tpc'[e] # "exec"
                   /\ messages'[AgentOf(e)] = <<>>
                   /\ Processed(e)' =>
                         /\ \E i \in DOMAIN out_put' :
                               /\ out_put'[i].id = e
                               /\ out_put'[i].content = ErrorText(outcome'[e].text)
                         /\ fut'[e].state \in {"cancelled", "result"}
                         /\ fut'[e].state = "result" =>
                               fut'[e].value = ErrorText(outcome'[e].text)
       ]_vars
    /\ \A e1 \in Envelopes, e2 \in Envelopes :
          (ForAbsentAgent(e1) /\ outcome[e1].kind = "raise" /\ Enqueued(e2))
             ~> (tpc[e2] = "done" /\ calls[e2] = 1)

\* The turn of an envelope for an absent agent failed with the not-found
\* error, the caller got the error text, and an envelope dequeued after it
\* had its turn run to a reply.
C21_Witness ==
    \E e1 \in Envelopes, e2 \in Envelopes :
        /\ ForAbsentAgent(e1)
        /\ outcome[e1] = Raised(NotFoundError("a2"))
        /\ fut[e1] = [state |-> "result", value |-> ErrorText(NotFoundError("a2"))]
        /\ e1 < e2
        /\ outcome[e2].kind = "value"
        /\ tpc[e2] = "done"

\* ------------------------------------------------------ bus.py properties
\* C28: the permits that are free and the tasks of the active set always
\* add up to max_parallel; a permit is given back only by the done callback
\* of a task that ended, one permit for the one task that leaves the active
\* set in that step, and a task that left the set is never in it again; and
\* every spawned task does leave the set, whether its turn returned, raised
\* or was cancelled.
C28_PermitAccounting ==
    /\ [][
           /\ semaphore' + Cardinality(active_tasks') = max_parallel'
           /\ semaphore' >= 0
           /\ \A e \in Envelopes :
                 /\ tpc[e] = "done" => e \notin active_tasks'
                 /\ e \in active_tasks \ active_tasks' =>
                       /\ TaskEnded(e)
                       /\ tpc'[e] = "done"
                       /\ semaphore' = semaphore + 1
                       /\ active_tasks' = active_tasks \ {e}
           /\ semaphore' > semaphore => active_tasks' # active_tasks
       ]_vars
    /\ \A e \in Envelopes :
          (e \in active_tasks) ~> (tpc[e] = "done" /\ e \notin active_tasks)

\* The worker was stopped with a turn in the executor, which was cancelled;
\* another turn had returned or raised; both tasks left the active set and
\* every permit is free again.
C28_Witness ==
    \E e1 \in Envelopes, e2 \in Envelopes :
        /\ consumer.pc = "joining"
        /\ outcome[e1] = Cancelled
        /\ locks[AgentOf(e1)].created
        /\ calls[e1] = 1
        /\ outcome[e2].kind \in {"value", "raise"}
        /\ tpc[e1] = "done"
        /\ tpc[e2] = "done"
        /\ active_tasks = {}
        /\ semaphore = max_parallel

\* ------------------------------------------------ scheduler.py properties
\* The events of the scheduler's history that are of job j and of kind k.
JobEvents(k, j) == {i \in DOMAIN sched.log : sched.log[i][1] = k /\ sched.log[i][2] = j}

\* The row of job j is in the store.
JobStored(j) == jobs[j].id = j

\* C22: once the tick that ran a one-time job is over, the job has status
\* 'completed' and no next_run_at, and Mico.run was called for it once only.
C22_OneTimeJobFiresOnce ==
    \A j \in JobIds :
        (/\ JobStored(j)
         /\ jobs[j].job_type = "once"
         /\ JobEvents("call", j) # {}
         /\ sched.pc = "sleep")
        => /\ jobs[j].status = "completed"
           /\ jobs[j].next_run_at = NoTime
           /\ Cardinality(JobEvents("call", j)) = 1

\* t is the first fire time strictly after now of a job that fires every
\* cron_period seconds.
FirstFireAfter(t, cron_period, now) ==
    /\ t > now
    /\ t % cron_period = 0
    /\ \A u \in (now + 1) .. (t - 1) : u % cron_period # 0

\* The second at which the processing of job j last began.
LastBegun(j) ==
    LET i == CHOOSE i \in JobEvents("call", j) : \A k \in JobEvents("call", j) : k <= i
    IN sched.log[i][3]

\* C23: when a recurring job was run and its update is stored, the job is
\* 'active', its last_run_at is the second at which the processing of the
\* job began, not the second of the update, and its next_run_at is the first
\* fire time of its cron expression strictly after that second.
C23_RecurringJobRescheduled ==
    [][
        \A j \in JobIds :
            (/\ sched.pc = "update"
             /\ sched.job.id = j
             /\ sched.job.job_type = "recurring"
             /\ JobStored(j)
             /\ JobEvents("updated", j)' # JobEvents("updated", j))
            => /\ jobs'[j].status = "active"
               /\ jobs'[j].last_run_at = LastBegun(j)
               /\ FirstFireAfter(jobs'[j].next_run_at, jobs[j].cron_period, LastBegun(j))
               /\ jobs'[j] = [jobs[j] EXCEPT !.next_run_at = jobs'[j].next_run_at,
                                             !.last_run_at = jobs'[j].last_run_at]
    ]_vars

\* A recurring job that began in second 0, a fire time of its expression,
\* was updated a second later: it is next due at its next fire time.
C23_Witness ==
    \E j \in JobIds :
        /\ jobs[j].job_type = "recurring"
        /\ JobStored(j)
        /\ jobs[j].last_run_at = 0
        /\ jobs[j].next_run_at = jobs[j].cron_period
        /\ \E i \in JobEvents("updated", j) : sched.log[i][3] = 1
        /\ get_due_jobs(0) = <<>>

\* The job the loop is about to process belongs to an agent that has no
\* row or has status 'deleted'.
NextJobOfGoneAgent ==
    /\ sched.pc = "job"
    /\ sched.due # <<>>
    /\ agents[Head(sched.due).agent_id] \in {None, "deleted"}

\* C24: when the agent of a due job is missing or has status 'deleted', the
\* job's row is deleted and no turn is run for it: Mico.run is not called,
\* no lock, message or memory changes; and no turn is ever run for the job
\* afterwards.
C24_JobOfGoneAgentDeleted ==
    /\ [][
           \A j \in JobIds :
               (NextJobOfGoneAgent /\ Head(sched.due).id = j /\ sched' # sched) =>
                   /\ sched'.pc # "call"
                   /\ UNCHANGED <<logVars, turnVars, agents>>
                   /\ JobEvents("failed", j)' = JobEvents("failed", j) =>
                         /\ ~JobStored(j)'
                         /\ JobEvents("deleted", j)' # JobEvents("deleted", j)
                         /\ \A k \in JobIds \ {j} : jobs'[k] = jobs[k]
       ]_vars
    /\ [](\A j \in JobIds :
            \A i \in JobEvents("deleted", j) :
                /\ ~JobStored(j)
                /\ \A k \in JobEvents("call", j) : k < i)

\* The job of an agent with status 'deleted' was deleted without a turn,
\* and the scheduler ticked again later.
C24_Witness ==
    \E j \in JobIds :
        /\ JobEvents("deleted", j) # {}
        /\ JobEvents("call", j) = {}
        /\ agents["a2"] = "deleted"
        /\ messages["a2"] = <<>>
        /\ \E i \in JobEvents("deleted", j), k \in DOMAIN sched.log :
              k > i /\ sched.log[k][1] = "tick"

\* Job j is among the due jobs the running tick has still to process.
InDue(j) == \E i \in DOMAIN sched.due : sched.due[i].id = j

\* The loop over the due jobs has just taken job j.
JustTaken(j) ==
    /\ ~InDue(j)
    /\ sched.log # <<>>
    /\ sched.log[Len(sched.log)][2] = j
    /\ sched.log[Len(sched.log)][1] \in {"call", "deleted", "failed"}

RECURSIVE Ascending(_)
Ascending(due) ==
    \/ Len(due) < 2
    \/ due[1].next_run_at <= due[2].next_run_at /\ Ascending(Tail(due))

\* C25: the jobs a tick found due are in ascending next_run_at order; a job
\* whose processing fails leaves the rest of them to be processed, and each
\* of them is taken in that tick; a tick that fails, in the query or
\* elsewhere, leaves the poll loop asleep for poll_interval, and the loop
\* ticks again once that time is over.
C25_SchedulerIsolation ==
    /\ [][
           /\ sched.pc = "sleep" /\ sched'.pc = "job" =>
                 /\ Ascending(sched'.due)
                 /\ sched'.due = get_due_jobs(clock)
           /\ \A j \in JobIds :
                 JobEvents("failed", j)' # JobEvents("failed", j) =>
                     /\ sched'.pc = "job"
                     /\ sched'.due = IF sched.pc = "job" THEN Tail(sched.due) ELSE sched.due
           /\ JobEvents("tick_failed", "")' # JobEvents("tick_failed", "") =>
                 /\ sched'.pc = "sleep"
                 /\ sched'.wake = clock + PollInterval
           /\ sched'.pc \in {"sleep", "job", "call", "run", "update"}
       ]_vars
    /\ \A j \in JobIds : InDue(j) ~> JustTaken(j)
    /\ (sched.pc = "sleep" /\ clock >= sched.wake)
          ~> (sched.pc = "job" \/ sched.wake > clock)

\* A tick failed in the query and the loop ticked again a second later; in
\* that tick the processing of the first due job failed and the second due
\* job was run.
C25_Witness ==
    \E i \in JobEvents("tick_failed", ""), k \in JobEvents("tick", ""),
       f \in JobEvents("failed", "j1"), c \in JobEvents("call", "j2") :
        /\ i < k
        /\ k < f
        /\ f < c
        /\ sched.log[k][3] = sched.log[i][3] + PollInterval
        /\ \A m \in JobEvents("tick", "") : m <= k
        /\ JobEvents("updated", "j2") # {}

\* C27: the turns in the executor call, those of the bus and that of the
\* scheduler together, are never more than max_parallel.
C27_TotalTurnsBound ==
    Cardinality({t \in Turns : InLockedSection(t)}) <= max_parallel

\* ---------------------------------------------------- turn properties
\* Turn t passes from `async with lock` to the executor call in this step:
\* compaction and the building of the history happen in it.
BuildsHistory(t) == tpc[t] # "exec" /\ tpc'[t] = "exec"

\* C29: in the step in which a turn builds its history, compaction has
\* run to its end first: the log is a suffix of the log as it was, the
\* messages removed are archived in a memory, and the history is the newest
\* messages of the log as compaction left it, followed by the turn's inputs;
\* no message of the history was deleted by compaction, in this turn or
\* before.
C29_CompactionBeforeSelection ==
    [][
        \A t \in Turns, a \in AgentIds :
            (BuildsHistory(t) /\ AgentOf(t) = a) =>
                LET before == messages[a]
                    after == messages'[a]
                    removed == compacted_ids' \ compacted_ids
                    history == history_input'[t]
                IN /\ \E k \in 0 .. Len(before) : after = Suffix(before, k)
                   /\ removed = IdSet(before) \ IdSet(after)
                   /\ removed # {} => memories'[a] # memories[a]
                   /\ IdSet(history) \cap compacted_ids' = {}
                   /\ LET n == IF after = <<>>
                               THEN 0
                               ELSE Max(1, LongestFitting(after, DEFAULT_TOKEN_BUDGET))
                      IN history = Suffix(after, n) \o HistoryInput(t, <<>>)
    ]_vars

\* A turn is in the executor call with a history built after its own
\* compaction removed messages: the history holds a message of the log that
\* was kept, and the turn's input.
C29_Witness ==
    \E t \in Turns :
        /\ tpc[t] = "exec"
        /\ compacted_ids # {}
        /\ memories[AgentOf(t)] # <<>>
        /\ Len(history_input[t]) >= 2
        /\ history_input[t][1].id \in IdSet(messages[AgentOf(t)])
        /\ \A u \in Turns \ {t} : tpc[u] \in {"done", "idle", "none"}

\* The rows a turn is to append for its inputs and a reply: the non-blank
\* ones of system input, user input and reply, stripped, in that order.
TurnRows(t, content) ==
    SelectSeq(<<[content |-> TurnArgs(t).system_input, id |-> <<t, "system">>,
                 role |-> "system", turn |-> t],
                [content |-> TurnArgs(t).user_input, id |-> <<t, "user">>,
                 role |-> "user", turn |-> t],
                [content |-> Strip(content), id |-> <<t, "assistant">>,
                 role |-> "assistant", turn |-> t]>>,
              LAMBDA row : row.content \notin {None, "", " "})

\* C30: messages are appended to an agent's log only by a turn of that agent
\* that is in the executor call holding the agent's lock, all rows of the
\* turn in one step: its system input, its user input and the reply, in
\* that order, without those that are blank; so the rows of one turn are
\* never separated by rows of another turn of the agent.
C30_PersistenceOrder ==
    /\ [][
           \A a \in AgentIds :
               Len(messages'[a]) > Len(messages[a]) =>
                   \E t \in Turns :
                       /\ InLockedSection(t)
                       /\ AgentOf(t) = a
                       /\ locks[a].locked
                       /\ \A u \in Turns \ {t} : ~(InLockedSection(u) /\ AgentOf(u) = a)
                       /\ \E content \in Results(t) :
                             /\ t \in Envelopes => outcome'[t] = Value(content)
                             /\ messages'[a] = messages[a] \o TurnRows(t, content)
       ]_vars
    /\ [](\A a \in AgentIds :
            \A i \in DOMAIN messages[a], k \in DOMAIN messages[a] :
                (i < k /\ messages[a][i].turn = messages[a][k].turn) =>
                    \A j \in i .. k : messages[a][j].turn = messages[a][i].turn)

\* The log of an agent holds the rows of three turns one after the other: a
\* user message with its reply, a user message whose reply was blank, and
\* the system message of the scheduled turn with its reply.
C30_Witness ==
    \E e1 \in Envelopes, e2 \in Envelopes :
        LET roles == [i \in DOMAIN messages["a2"] |->
                         <<messages["a2"][i].turn, messages["a2"][i].role>>]
        IN /\ e1 # e2
           /\ \E i \in DOMAIN roles :
                 /\ i + 4 = Len(roles)
                 /\ SubSeq(roles, i, i + 4) \in
                       {<<<<e1, "user">>, <<e1, "assistant">>, <<e2, "user">>,
                          <<SchedTurn, "system">>, <<SchedTurn, "assistant">>>>}

\* The task of envelope e holds a permit and is not waiting for its agent's
\* lock: it is about to call Mico.run, in the executor call, or past it.
Executing(e) == tpc[e] \in {"ready", "exec", "publishing", "finished"}

\* A turn of agent a is under way or queued on a's lock.
InFlight(a) ==
    \E e \in Envelopes :
        AgentOf(e) = a /\ (Executing(e) \/ tpc[e] = "lockwait")

\* C26: while fewer than max_parallel turns are executing, the consumer
\* loop is not kept waiting for a permit with a dequeued envelope of an
\* agent that has no turn under way or queued.
C26_NoCrossAgentBlocking ==
    (/\ consumer.pc = "acquire"
     /\ ~PermitFree(semaphore)
     /\ Cardinality({e \in Envelopes : Executing(e)}) < max_parallel)
    => InFlight(AgentOf(consumer.envelope))

\* C31: when the executor raised during the turn of envelope e and the task
\* has left _process_envelope, the error text that was published to the user
\* is the content of a row of that turn in the agent's message log.
C31_ErrorTextPersisted ==
    \A e \in Envelopes :
        (outcome[e] = Raised(ExecutorError) /\ Processed(e)) =>
            \E i \in DOMAIN messages[AgentOf(e)] :
                /\ messages[AgentOf(e)][i].turn = e
                /\ messages[AgentOf(e)][i].content = Response(outcome[e])

\* Mico.run raised in the last run of job j, the tick that ran it is over
\* and the store has not failed since the run began.
LastRunFailed(j) ==
    /\ JobStored(j)
    /\ sched.pc = "sleep"
    /\ JobEvents("call", j) # {}
    /\ LET c == CHOOSE i \in JobEvents("call", j) : \A k \in JobEvents("call", j) : k <= i
       IN /\ \E i \in JobEvents("run_failed", j) : i > c
          /\ \A i \in JobEvents("failed", j) : i > c => sched.log[i][4] # StorageError

\* The row of job j after a run that began at second `now`: a one-time job
\* is 'completed' with no next_run_at, a recurring job is 'active' and
\* next due at the first fire time after `now`.
UpdatedAfterRun(j, now) ==
    /\ jobs[j].last_run_at = now
    /\ IF jobs[j].job_type = "once"
       THEN /\ jobs[j].status = "completed"
            /\ jobs[j].next_run_at = NoTime
       ELSE /\ jobs[j].status = "active"
            /\ FirstFireAfter(jobs[j].next_run_at, jobs[j].cron_period, now)

\* C32: when Mico.run raised while the scheduler executed a due job, the
\* exception is swallowed and the job is updated as after a successful run:
\* once the tick is over a one-time job is 'completed' and a recurring job
\* is set to its next fire time.
C32_FailedRunAdvancesJob ==
    \A j \in JobIds : LastRunFailed(j) => UpdatedAfterRun(j, LastBegun(j))

\* The recurring half of C32 alone.
FailedRunAdvancesRecurringJob ==
    \A j \in JobIds :
        (LastRunFailed(j) /\ jobs[j].job_type = "recurring")
        => UpdatedAfterRun(j, LastBegun(j))

\* ------------------------------------------------- shutdown properties
\* AgentMessageWorker.stop() has returned.
StopReturned == consumer.pc = "returned"

\* C33: once stop() has returned the consumer loop has ended and dequeues no
\* further envelope, every task that was in flight is done, the active set
\* is empty and all max_parallel permits are free; and the done callback of
\* a cancelled task ends without an exception.
C33_ShutdownSettled ==
    /\ [](StopReturned =>
          /\ \A e \in Envelopes : tpc[e] \in {"none", "done"}
          /\ active_tasks = {}
          /\ semaphore = max_parallel)
    /\ [][StopReturned => (StopReturned' /\ got_order' = got_order)]_vars

\* C33 without the bookkeeping of the done callbacks: once stop() has
\* returned the consumer loop dequeues nothing, no task is left running or
\* waiting, and each task that has not yet run its done callback is the
\* holder of one permit.
ShutdownTasksEnded ==
    /\ [](StopReturned =>
          /\ \A e \in Envelopes : tpc[e] \in {"none", "finished", "cancelled", "done"}
          /\ ready = <<>>
          /\ semaphore + Cardinality(active_tasks) = max_parallel)
    /\ [][StopReturned => (StopReturned' /\ got_order' = got_order)]_vars

\* ------------------------------------------------ channels.py properties
\* The last call recorded is a call of _split_message that returned.
SplitReturned == fn_call[1] = "split" /\ fn_result[1] = "return"

\* Where the claim cuts a remainder longer than limit: at its last newline
\* within the first limit characters, else at its last space there, else at
\* limit; a cut that would leave an empty chunk is no cut.
CutPoint(remaining, limit) ==
    LET first == SubSeq(remaining, 1, limit)
        at(ch) == {i \in 1 .. Len(first) - 1 : first[i + 1] = ch}
        last(S) == CHOOSE i \in S : \A k \in S : k <= i
    IN IF at("\n") # {} THEN last(at("\n"))
       ELSE IF at(" ") # {} THEN last(at(" "))
       ELSE limit

\* The chunks the claim calls for: a text within the limit is one chunk; a
\* longer remainder is cut at its cut point and goes on with what follows,
\* the whitespace at the cut removed.
RECURSIVE ChunksCalledFor(_, _)
ChunksCalledFor(remaining, limit) ==
    IF remaining = <<>>
    THEN <<>>
    ELSE IF Len(remaining) <= limit
         THEN <<remaining>>
         ELSE LET cut == CutPoint(remaining, limit)
              IN <<SubSeq(remaining, 1, cut)>>
                     \o ChunksCalledFor(lstrip(SubSeq(remaining, cut + 1, Len(remaining))),
                                        limit)

\* The chunks in their order make up text, but for whitespace between and
\* after them.
RECURSIVE MakeUp(_, _)
MakeUp(chunks, text) ==
    IF chunks = <<>>
    THEN lstrip(text) = <<>>
    ELSE /\ Len(Head(chunks)) <= Len(text)
         /\ SubSeq(text, 1, Len(Head(chunks))) = Head(chunks)
         /\ LET rest == SubSeq(text, Len(Head(chunks)) + 1, Len(text))
            IN \E k \in 0 .. (Len(rest) - Len(lstrip(rest))) :
                  MakeUp(Tail(chunks), SubSeq(rest, k + 1, Len(rest)))

\* C35: _split_message(text, limit) returns, for a text that is not empty
\* and a limit of at least 1, chunks that are not empty and no longer than
\* limit, in the order of the text; a text no longer than limit comes back as
\* one chunk; a longer remainder is cut at the last newline within its first
\* limit characters, else at the last space, else at limit; and the chunks
\* make up the text but for the whitespace removed at the cuts.
C35_SplitMessage ==
    (SplitReturned /\ fn_call[2] # <<>>) =>
        LET text == fn_call[2]
            limit == fn_call[3]
            chunks == fn_result[2]
        IN /\ \A i \in DOMAIN chunks : chunks[i] # <<>> /\ Len(chunks[i]) <= limit
           /\ Len(text) <= limit => chunks = <<text>>
           /\ MakeUp(chunks, text)
           /\ chunks = ChunksCalledFor(text, limit)

\* C35 but for the rule of the cut: the chunks are not empty, within the
\* limit, in order, one chunk for a short text, and make up the text.
SplitMessageChunks ==
    (SplitReturned /\ fn_call[2] # <<>>) =>
        LET text == fn_call[2]
            limit == fn_call[3]
            chunks == fn_result[2]
        IN /\ \A i \in DOMAIN chunks : chunks[i] # <<>> /\ Len(chunks[i]) <= limit
           /\ Len(text) <= limit => chunks = <<text>>
           /\ MakeUp(chunks, text)


\* ------------------------------------------------- channels.py properties
\* The errors of the sends that failed.
SendErrors == {send_errors[i][2] : i \in DOMAIN send_errors}

\* C34: a message reaches the bot of a telegram adapter only when its
\* agent_id is the adapter's and its channel is the channel the sender was
\* looked up under; a send whose channel does not match, or for whose agent
\* the telegram service has no adapter, raises and calls no bot.
C34_NoMisrouting ==
    /\ [](\A i \in DOMAIN tg_sent :
             /\ tg_sent[i].message.agent_id = tg_sent[i].adapter
             /\ tg_sent[i].message.channel = tg_sent[i].channel)
    /\ [][\A channel \in Channels, mc \in Channels, a \in AgentIds :
             LET m == DirectMessageFor(a, mc, Len(delivered) + Len(send_errors) + 1)
             IN SendDirect(channel, m) =>
                   /\ tg_sent' # tg_sent =>
                         /\ a \in DOMAIN tg_adapters
                         /\ tg_adapters[a].agent_id = a
                         /\ \A i \in Len(tg_sent) + 1 .. Len(tg_sent') :
                               /\ tg_sent'[i].adapter = a
                               /\ tg_sent'[i].message = m
                   /\ (\/ mc # channel
                       \/ /\ sender_registry[channel] = "telegram_send"
                          /\ a \notin DOMAIN tg_adapters) =>
                         /\ tg_sent' = tg_sent
                         /\ send_errors' # send_errors
                         /\ send_errors'[Len(send_errors')][1] = m.id
                         /\ outloop' = outloop]_vars

\* A message was sent by the adapter of its agent, a send with the wrong
\* channel was refused, and so was one for an agent without an adapter.
C34_Witness ==
    /\ tg_sent # <<>>
    /\ MismatchError \in SendErrors
    /\ NotConfiguredError \in SendErrors

\* C36: when the start of an adapter raises during the start of the
\* telegram service, that adapter is left not running and without its
\* application, and every adapter started before it is left as it was:
\* running, registered with the service under its agent, with the telegram
\* sender registered, so that a message for its agent goes to its bot.
C36_StartFailureIsolated ==
    /\ [](\A a \in DOMAIN tg_adapters :
             /\ tg_adapters[a].running <=> tg_adapters[a].app
             /\ tg_adapters[a].running =>
                   /\ send(sender_registry, "telegram", DirectMessageFor(a, "telegram", 1)) =
                         <<"invoke", "telegram_send">>
                   /\ ServiceSend(tg_adapters, DirectMessageFor(a, "telegram", 1)) =
                         <<"transport", a>>)
    /\ [][(cm_start = "pending" /\ cm_start' = "raised") =>
             /\ DOMAIN tg_adapters' = DOMAIN tg_adapters
             /\ ~tg_adapters'[Head(tg_start)].running
             /\ ~tg_adapters'[Head(tg_start)].app
             /\ sender_registry' = sender_registry
             /\ \A b \in DOMAIN tg_adapters \ {Head(tg_start)} :
                   tg_adapters'[b] = tg_adapters[b]]_vars

\* The start of the second adapter raised after the first was started, and
\* a message was then sent by the first.
C36_Witness ==
    /\ cm_start = "raised"
    /\ DOMAIN tg_adapters = AgentIds
    /\ tg_adapters["a1"].running
    /\ ~tg_adapters["a2"].running
    /\ \E i \in DOMAIN tg_sent : tg_sent[i].adapter = "a1"

\* ------------------------------------------------------ bus.py properties
\* C37: a non-blank response is on the outbound queue, or was, before the
\* response future holds it.  A task that found the outbound queue full is
\* suspended in publish_outbound: it is still an active task holding its
\* permit, nothing was published for its envelope and its caller has no
\* answer; while the queue stays full it stays there, and the future of its
\* envelope changes only when the put went through, which takes room in the
\* queue, or when the caller's timeout cancels it.
C37_OutboundBeforeAnswer ==
    /\ [](\A e \in Envelopes :
             /\ (fut[e].state = "result" /\ ShouldPublish(fut[e].value)) =>
                   Cardinality(OutboundFor(e)) = 1
             /\ tpc[e] = "publishing" =>
                   /\ e \in active_tasks
                   /\ semaphore + Cardinality(active_tasks) <= max_parallel
                   /\ OutboundFor(e) = {}
                   /\ fut[e].state # "result"
                   /\ env[e].wait_response => ~HasReturned(e))
    /\ [][\A e \in Envelopes :
             tpc[e] = "publishing" =>
                /\ QueueFull(outbound, outbound_maxsize) =>
                      /\ tpc'[e] = "publishing"
                      /\ e \in active_tasks'
                      /\ semaphore' + Cardinality(active_tasks') <= max_parallel
                      /\ fut'[e].state # "result"
                /\ fut'[e] # fut[e] =>
                      \/ /\ env[e].timed
                         /\ pub'[e] = "timeout"
                         /\ fut'[e].state = "cancelled"
                         /\ tpc'[e] = "publishing"
                      \/ /\ ~QueueFull(outbound, outbound_maxsize)
                         /\ fut'[e] = [state |-> "result", value |-> tresp[e]]
                         /\ Cardinality(OutboundFor(e)') = 1]_vars

\* The outbound queue is full and a task is suspended in publish_outbound
\* with the reply for a caller that still waits.
C37_Witness ==
    /\ QueueFull(outbound, outbound_maxsize)
    /\ \E e \in Envelopes :
          /\ tpc[e] = "publishing"
          /\ env[e].wait_response
          /\ pub[e] = "await"
          /\ fut[e].state = "pending"

\* ------------------------------------------------- compact.py properties
\* C38: when compact_conversation_if_needed has returned and is called
\* again with the same arguments, no message added in between, a call that
\* returns reports triggered = False with nothing compacted, finds the
\* tokens the first call reported to be left, and changes neither the log
\* nor the memories.
C38_CompactionIdempotent ==
    [][(/\ fn_calls' = fn_calls + 1
        /\ fn_call[1] = "compact"
        /\ fn_call' = fn_call
        /\ fn_result[1] = "return"
        /\ fn_result'[1] = "return") =>
           /\ ~fn_result'[2].triggered
           /\ fn_result'[2].compacted_messages = 0
           /\ fn_result'[2].memory_name = None
           /\ fn_result'[2].total_tokens_before = fn_result[2].total_tokens_after
           /\ fn_result'[2].total_tokens_after = fn_result[2].total_tokens_after
           /\ messages' = messages
           /\ memories' = memories]_vars

\* A second call, after one that compacted, found a log that is still at
\* its threshold, and left it as it was.
C38_Witness ==
    /\ fn_calls = 2
    /\ ReturnedFrom("compact")
    /\ compacted_ids # {}
    /\ ~fn_result[2].triggered
    /\ fn_result[2].total_tokens_before >= fn_call[3]
    /\ messages["a1"] = fn_before
    /\ Len(memories["a1"]) = 1

\* C39: the protected tail of a log that is not empty starts at or before
\* its newest message, whatever that message costs.  No call of
\* compact_conversation_if_needed, however it ends, removes the newest
\* message of the log or leaves a log empty that was not; one that returns
\* reports at least one message kept, at the cost of the newest at least.
C39_NewestKept ==
    [][(fn_calls' # fn_calls /\ fn_call'[1] = "compact") =>
          LET rows == messages[fn_call'[2]]
              kept == messages'[fn_call'[2]]
          IN rows # <<>> =>
                /\ kept # <<>>
                /\ kept[Len(kept)] = rows[Len(rows)]
                /\ rows[Len(rows)].id \notin compacted_ids'
                /\ fn_result'[1] = "return" =>
                      /\ TailStart(rows, fn_call'[5]) <= Len(rows) - 1
                      /\ fn_result'[2].compacted_messages <= Len(rows) - 1
                      /\ fn_result'[2].kept_recent_messages >= 1
                      /\ fn_result'[2].kept_recent_tokens >=
                            message_tokens(rows[Len(rows)].role, rows[Len(rows)].content)
      ]_vars

\* A compaction removed every message but the newest, which alone costs
\* more than keep_recent_tokens.
C39_Witness ==
    /\ ReturnedFrom("compact")
    /\ fn_result[2].triggered
    /\ Len(fn_before) >= 2
    /\ messages[fn_call[2]] = <<fn_before[Len(fn_before)]>>
    /\ LogCost(messages[fn_call[2]]) > fn_call[5]

\* -------------------------------------------------- agent.py properties
\* Turn t is inside `async with lock`.
HoldsLock(t) == tpc[t] \in {"exec", "cancel_exec"}

\* Turn t is suspended in the acquire of its agent's lock.
WaitsForLock(t) == tpc[t] \in {"lockwait", "cancel_lockwait"}

\* C40: the lock of an agent is locked exactly while one turn for that
\* agent is inside `async with lock`, so a turn that left it, by a return,
\* an exception or a cancellation, left the lock free; the turns queued for
\* a lock are turns that wait for it; a turn leaves the wait by taking the
\* free lock as the first of the queue, or because it was cancelled; and
\* every turn that waits for a lock eventually has it or was cancelled.
C40_LockReleased ==
    /\ [](\A a \in AgentIds :
             /\ locks[a].locked <=> \E t \in Turns : AgentOf(t) = a /\ HoldsLock(t)
             /\ Cardinality({t \in Turns : AgentOf(t) = a /\ HoldsLock(t)}) <= 1
             /\ \A t \in Turns :
                   (AgentOf(t) = a /\ WaitsForLock(t)) <=>
                      \E i \in DOMAIN locks[a].waiters : locks[a].waiters[i] = t)
    /\ [][\A t \in Turns :
             (tpc[t] = "lockwait" /\ tpc'[t] \notin {"lockwait", "cancel_lockwait"}) =>
                /\ ~locks[AgentOf(t)].locked
                /\ Head(locks[AgentOf(t)].waiters) = t
                /\ HoldsLock(t)' \/ ~locks'[AgentOf(t)].locked]_vars
    /\ \A t \in Turns : (tpc[t] = "lockwait") ~> ~WaitsForLock(t)

\* A turn of the bus for agent a1, the only one for that agent, was
\* cancelled, the lock is free, and the scheduler's turn, which queued for
\* it, is the next to take it.
C40_Witness ==
    /\ ~locks["a1"].locked
    /\ locks["a1"].waiters = <<SchedTurn>>
    /\ tpc[SchedTurn] = "lockwait"
    /\ \E e \in Envelopes :
          /\ AgentOf(e) = "a1"
          /\ outcome[e] = Cancelled
          /\ \A d \in Envelopes \ {e} : AgentOf(d) # "a1"
====
